---- MODULE Spec2Model ----
(***************************************************************************)
(* go-httpagent: the Agent's dispatch pipeline (Agent.Do), the request and *)
(* response hook chains, the header-applying hook and the context-scoped   *)
(* client, as a state machine.                                             *)
(*                                                                         *)
(* Pointers are strings ("nil" is the nil pointer / nil interface / nil    *)
(* error); the objects they point to live in the variables below.          *)
(***************************************************************************)
EXTENDS Integers, Sequences, FiniteSets, TLC

VARIABLES
    agent,      \* the Agent struct: Client, DefaultTimeout, DefaultHeader, RequestHooks, ResponseHooks
    derived,    \* the Agent struct that agent.WithClient returned, NilAgent before
    headers,    \* heap of http.Header maps: pointer -> names and their values
    contexts,   \* the context.Context values a caller holds, each a chain of layers
    chains,     \* heap of *RequestHooks / *ResponseHooks: pointer -> the hooks slice
    call,       \* per call of Agent.Do or of a chain's Do: position and locals
    trace,      \* per call: what ran, in order, and the message it saw
    last,       \* the operation a caller has just made on a chain of the heap, and its outcome
    dumper      \* a call of a dumper hook's Do: position, locals, and what its Writer received

vars == <<agent, derived, headers, contexts, chains, call, trace, last, dumper>>

-----------------------------------------------------------------------------
(* Bounds of the model *)

\* most hooks held by the Agent's two chains together
MaxHooks == 2
\* most hooks held by all chains of the heap together, when chains are composed
MaxHeap == 5
\* most values held by one http.Header (over all its names)
MaxVals == 2
\* most hooks passed to one call of NewRequestHooks / NewResponseHooks
MaxArgs == 2
\* most time that passes during one call, in units of the clock
MaxTime == 2
MaxContexts == 4
MaxRequestVals == 4
MaxDump == 3

-----------------------------------------------------------------------------
(* net/http Header, as used by the package *)

\* header names as a caller may spell them
RawNames == {"Foo", "foo", "Bar"}
\* values a configuration may give a default header
Values == {"1", "2"}

\* a canonical form that keeps the spelling: names differing in case differ
CanonicalHeaderKey_Identity(k) == k

\* http.CanonicalHeaderKey: first letter upper case, the rest lower case
CanonicalHeaderKey(k) == IF k = "foo" THEN "Foo" ELSE k

\* http.Header{}
EmptyHeader == [k \in {} |-> <<>>]

\* a Get that gives the last value of the name
HeaderGet_Last(h, k) ==
    LET ck == CanonicalHeaderKey(k)
    IN  IF ck \in DOMAIN h /\ Len(h[ck]) > 0 THEN h[ck][Len(h[ck])] ELSE ""

\* http.Header.Get: the first value of the canonical name, "" when there is none
HeaderGet(h, k) ==
    LET ck == CanonicalHeaderKey(k)
    IN  IF ck \in DOMAIN h /\ Len(h[ck]) > 0 THEN h[ck][1] ELSE ""

\* a Set that leaves the header with the one name only
HeaderSet_Resets(h, k, v) ==
    LET ck == CanonicalHeaderKey(k)
    IN  [x \in {ck} |-> <<v>>]

\* http.Header.Set: replaces the values of the canonical name by the one value
HeaderSet(h, k, v) ==
    LET ck == CanonicalHeaderKey(k)
    IN  [x \in DOMAIN h \cup {ck} |-> IF x = ck THEN <<v>> ELSE h[x]]

\* an Add that puts the value in front of the values of the name
HeaderAdd_Prepends(h, k, v) ==
    LET ck == CanonicalHeaderKey(k)
    IN  [x \in DOMAIN h \cup {ck} |->
            IF x = ck THEN (IF ck \in DOMAIN h THEN <<v>> \o h[ck] ELSE <<v>>)
            ELSE h[x]]

\* http.Header.Add: appends the value to the values of the canonical name
HeaderAdd(h, k, v) ==
    LET ck == CanonicalHeaderKey(k)
    IN  [x \in DOMAIN h \cup {ck} |->
            IF x = ck THEN (IF ck \in DOMAIN h THEN Append(h[ck], v) ELSE <<v>>)
            ELSE h[x]]

\* number of values a header holds over all names
RECURSIVE SumLen(_, _)
SumLen(h, ks) ==
    IF ks = {} THEN 0
    ELSE LET k == CHOOSE x \in ks : TRUE IN Len(h[k]) + SumLen(h, ks \ {k})

HeaderSize(h) == SumLen(h, DOMAIN h)

\* the orders in which a range over the map may visit the names in ks
RECURSIVE Orders(_)
Orders(ks) ==
    IF ks = {} THEN {<<>>}
    ELSE UNION {{<<k>> \o o : o \in Orders(ks \ {k})} : k \in ks}

-----------------------------------------------------------------------------
(* RequestHeaderHook *)

\* an iteration that appends in set mode too
RequestHeaderHookKey_AlwaysAdds(h, hdr, key) ==
    IF h.SkipIfExists /\ CanonicalHeaderKey(key) \in DOMAIN hdr
    THEN hdr
    ELSE HeaderAdd(hdr, key, HeaderGet(h.Header, key))

\* an iteration that does not look at SkipIfExists
RequestHeaderHookKey_NeverSkips(h, hdr, key) ==
    LET value == HeaderGet(h.Header, key)
    IN  IF h.Add THEN HeaderAdd(hdr, key, value) ELSE HeaderSet(hdr, key, value)

\* one iteration of the loop of RequestHeaderHook.Do, for the name key
RequestHeaderHookKey(h, hdr, key) ==
    IF h.SkipIfExists /\ CanonicalHeaderKey(key) \in DOMAIN hdr
    THEN hdr
    ELSE LET value == HeaderGet(h.Header, key)
         IN  IF h.Add THEN HeaderAdd(hdr, key, value) ELSE HeaderSet(hdr, key, value)

\* RequestHeaderHook.Do on a request whose headers are hdr, the range visiting
\* the names of h.Header in the given order; the hook returns nil
RECURSIVE RequestHeaderHookDo(_, _, _)
RequestHeaderHookDo(h, hdr, order) ==
    IF order = <<>> THEN hdr
    ELSE RequestHeaderHookDo(h, RequestHeaderHookKey(h, hdr, Head(order)), Tail(order))

-----------------------------------------------------------------------------
(* context.Context: a chain of layers over context.Background() *)

Background == <<>>

\* context.WithValue(ctx, clientContextKey, client), after the nil check
ContextWithClient(ctx, client) ==
    Append(ctx, [kind |-> "client", client |-> client, timeout |-> 0, deadline |-> 0])

\* the layers of ctx that carry a deadline
DeadlineLayers(ctx) == {n \in DOMAIN ctx : ctx[n].kind \in {"deadline", "timeout"}}

\* ctx.Deadline(): whether there is one, and the one of the innermost layer
\* that carries a deadline
HasDeadline(ctx) == DeadlineLayers(ctx) # {}
Deadline(ctx) ==
    IF HasDeadline(ctx)
    THEN ctx[CHOOSE n \in DeadlineLayers(ctx) : \A m \in DeadlineLayers(ctx) : m <= n].deadline
    ELSE 0

\* a derived context that takes the time t for its deadline whatever its
\* parent's deadline is
WithDeadline_Extends(ctx, kind, d, t) ==
    Append(ctx, [kind |-> kind, client |-> "", timeout |-> d, deadline |-> t])

\* context.WithDeadline(ctx, t): a parent deadline earlier than t stays the
\* deadline of the derived context
WithDeadline(ctx, kind, d, t) ==
    Append(ctx, [kind |-> kind, client |-> "", timeout |-> d,
                 deadline |-> IF HasDeadline(ctx) /\ Deadline(ctx) < t
                              THEN Deadline(ctx) ELSE t])

\* context.WithTimeout(ctx, d) at the time now: WithDeadline(ctx, now + d); the
\* derived context (its cancel function is the call's local "cancel")
WithTimeout(ctx, d, now) == WithDeadline(ctx, "timeout", d, now + d)

\* a contextClient that returns the first client that was attached
contextClient_Outermost(ctx) ==
    LET cs == {n \in DOMAIN ctx : ctx[n].kind = "client"}
    IN  IF cs = {} THEN "nil"
        ELSE ctx[CHOOSE n \in cs : \A m \in cs : n <= m].client

\* contextClient: ctx.Value(clientContextKey) walks from the innermost layer
\* outwards; the type assertion on a missing value fails and gives nil
RECURSIVE contextClient(_)
contextClient(ctx) ==
    IF ctx = <<>> THEN "nil"
    ELSE IF ctx[Len(ctx)].kind = "client" THEN ctx[Len(ctx)].client
    ELSE contextClient(SubSeq(ctx, 1, Len(ctx) - 1))

\* whether ctx is (derived from) a context made by context.WithTimeout
IsDerived(ctx) == \E n \in 1..Len(ctx) : ctx[n].kind = "timeout"

-----------------------------------------------------------------------------
(* Hooks *)

\* the nil interface value
NilHook == [type |-> "nil", id |-> ""]
NopRequestHook == [type |-> "nop", id |-> "request"]
NopResponseHook == [type |-> "nop", id |-> "response"]
\* a RequestHookFunc / ResponseHookFunc, named by what its closure does
HookFunc(id) == [type |-> "func", id |-> id]
\* a *RequestHooks / *ResponseHooks passed as a hook
HooksPtr(p) == [type |-> "chain", id |-> p]

\* the closures callers hook in: one that sets a header of the message, and
\* ones that return an error of their own
RequestFuncs == {"set", "errA"}
ResponseFuncs == {"set", "errB"}

\* hook.Do(req) of a request hook on a request with headers hdr
RequestHookDo(hook, hdr) ==
    IF hook.type = "func" /\ hook.id = "set"
    THEN [hdr |-> HeaderSet(hdr, "foo", "h"), err |-> "nil"]
    ELSE IF hook.type = "func"
    THEN [hdr |-> hdr, err |-> hook.id]
    ELSE [hdr |-> hdr, err |-> "nil"]

\* hook.Do(res) of a response hook on the response pointer res whose headers
\* are hdr; a closure that touches a nil response panics
ResponseHookDo(hook, res, hdr) ==
    IF hook.type = "func" /\ hook.id = "set"
    THEN IF res = "nil"
         THEN [hdr |-> hdr, err |-> "nil", panic |-> TRUE]
         ELSE [hdr |-> HeaderSet(hdr, "foo", "h"), err |-> "nil", panic |-> FALSE]
    ELSE IF hook.type = "func"
    THEN [hdr |-> hdr, err |-> hook.id, panic |-> FALSE]
    ELSE [hdr |-> hdr, err |-> "nil", panic |-> FALSE]

\* an Append that stores the no-op like any other hook
RequestHooksAppend_StoresNop(hs, hook) ==
    IF hook.type = "chain" THEN hs \o chains[hook.id]
    ELSE Append(hs, hook)

\* an Append that splices an appended chain in front of the hooks held
RequestHooksAppend_Prepends(hs, hook) ==
    IF hook = NopRequestHook THEN hs
    ELSE IF hook.type = "chain" THEN chains[hook.id] \o hs
    ELSE Append(hs, hook)

\* the hooks slice after RequestHooks.Append(hook) on a chain holding hs
\* (hook is not nil): the no-op is skipped, a chain is flattened
RequestHooksAppend(hs, hook) ==
    IF hook = NopRequestHook THEN hs
    ELSE IF hook.type = "chain" THEN hs \o chains[hook.id]
    ELSE Append(hs, hook)

\* an Append that stores an appended chain as one hook
ResponseHooksAppend_Nests(hs, hook) ==
    IF hook = NopResponseHook THEN hs
    ELSE Append(hs, hook)

\* the hooks slice after ResponseHooks.Append(hook) on a chain holding hs
ResponseHooksAppend(hs, hook) ==
    IF hook = NopResponseHook THEN hs
    ELSE IF hook.type = "chain" THEN hs \o chains[hook.id]
    ELSE Append(hs, hook)

-----------------------------------------------------------------------------
(* The Agent, its configuration and the callers *)

\* the calls in flight
Calls == DOMAIN call

\* the http.Header, *RequestHooks and *ResponseHooks that NewAgent allocates
AgentHeader == "h0"
AgentRequestHooks == "rq0"
AgentResponseHooks == "rs0"
\* the pointers NewRequestHooks / NewResponseHooks / Clone may allocate
RequestPtrs == {"rq0", "rq1"}
ResponsePtrs == {"rs0", "rs1"}

\* values of DefaultTimeout a configuration may set: negative, zero, positive
Timeouts == {-1, 0, 1}

\* the headers of the requests callers pass to Do: the empty header of
\* http.NewRequest, then Header.Set of some names, or a Set and an Add of one
CallerHeaders ==
    {EmptyHeader,
     HeaderSet(EmptyHeader, "foo", "r"),
     HeaderSet(EmptyHeader, "Bar", "r"),
     HeaderSet(HeaderSet(EmptyHeader, "Foo", "r"), "Bar", "r"),
     HeaderAdd(HeaderSet(EmptyHeader, "Foo", "r"), "foo", "s")}

\* the contexts of the requests callers pass to Do
CallerContexts == {Background, ContextWithClient(Background, "ctxClient")}

\* a call that has not started: the zero values of the locals
IdleCall ==
    [pc |-> "idle", fn |-> "", hdr |-> EmptyHeader, ctx |-> Background,
     client |-> "nil", cancel |-> "nop", res |-> "nil", resHdr |-> EmptyHeader,
     err |-> "nil", hooks |-> <<>>, i |-> 0, retRes |-> "nil", retErr |-> "nil",
     req |-> "req", now |-> 0]

\* one entry of a call's history: what happened, who did it, the headers and
\* the context of the message at that time, and what the step gave back
Event(ev, who, hdr, ctx, res, err) ==
    [ev |-> ev, who |-> who, hdr |-> hdr, ctx |-> ctx, res |-> res, err |-> err]

\* no call is in flight
Quiet == \A c \in Calls : call[c].pc = "idle"

\* NewAgent(client): the client, an empty header, empty chains, no timeout
NewAgent(client) ==
    [Client |-> client, DefaultTimeout |-> 0, DefaultHeader |-> AgentHeader,
     RequestHooks |-> AgentRequestHooks, ResponseHooks |-> AgentResponseHooks]

\* the nil *Agent
NilAgent ==
    [Client |-> "nil", DefaultTimeout |-> 0, DefaultHeader |-> "nil",
     RequestHooks |-> "nil", ResponseHooks |-> "nil"]

\* no dumper hook has been called
IdleDumper ==
    [pc |-> "idle", hook |-> "", dump |-> <<>>, wrote |-> 0, ret |-> "nil",
     body |-> <<>>, received |-> <<>>]

\* no operation has been made yet; an operation leaves its name, its
\* receiver p, its hook argument, its other arguments in, its results out and
\* the value it panicked with
NoOp == [op |-> "", p |-> "", hook |-> NilHook, panicked |-> "", in |-> <<>>, out |-> <<>>]

Init ==
    /\ agent = NewAgent("agentClient")
    /\ derived = NilAgent
    /\ headers = [p \in {AgentHeader} |-> EmptyHeader]
    /\ contexts = <<Background>>
    /\ chains = [p \in {AgentRequestHooks, AgentResponseHooks} |-> <<>>]
    /\ call = [c \in {"c1"} |-> IdleCall]
    /\ trace = [c \in {"c1"} |-> <<>>]
    /\ last = NoOp
    /\ dumper = IdleDumper

\* agent.DefaultTimeout = d
SetDefaultTimeout(d) ==
    /\ agent' = [agent EXCEPT !.DefaultTimeout = d]
    /\ UNCHANGED <<derived, headers, contexts, chains, call, trace, last, dumper>>

\* agent.DefaultHeader.Set(k, v)
DefaultHeaderSet(k, v) ==
    /\ headers' = [headers EXCEPT ![agent.DefaultHeader] = HeaderSet(@, k, v)]
    /\ UNCHANGED <<agent, derived, contexts, chains, call, trace, last, dumper>>

\* agent.DefaultHeader.Add(k, v)
DefaultHeaderAdd(k, v) ==
    /\ headers' = [headers EXCEPT ![agent.DefaultHeader] = HeaderAdd(@, k, v)]
    /\ UNCHANGED <<agent, derived, contexts, chains, call, trace, last, dumper>>

\* agent.RequestHooks.Append(hook), hook not nil
AgentAppendRequestHook(hook) ==
    /\ chains' = [chains EXCEPT ![agent.RequestHooks] = RequestHooksAppend(@, hook)]
    /\ UNCHANGED <<agent, derived, headers, contexts, call, trace, last, dumper>>

\* agent.ResponseHooks.Append(hook), hook not nil
AgentAppendResponseHook(hook) ==
    /\ chains' = [chains EXCEPT ![agent.ResponseHooks] = ResponseHooksAppend(@, hook)]
    /\ UNCHANGED <<agent, derived, headers, contexts, call, trace, last, dumper>>

\* hooks held by the Agent's own two chains
HooksHeld == Len(chains[agent.RequestHooks]) + Len(chains[agent.ResponseHooks])

-----------------------------------------------------------------------------
(* The loops of RequestHooks.Do and ResponseHooks.Do *)

\* the range loop is entered on the slice hs: it evaluates h.hooks once;
\* err is the named result, nil so far
EnterLoop(c, hs, loop, ret) ==
    [c EXCEPT !.hooks = hs, !.i = 1, !.err = "nil",
              !.pc = IF hs = <<>> THEN ret ELSE loop]

\* a loop that goes on to the next hook whatever the hook returned
LoopNext_IgnoresError(err, i, n, loop, ret) == IF i >= n THEN ret ELSE loop

\* where the loop goes after the hook at index i of n returned err
LoopNext(err, i, n, loop, ret) == IF err # "nil" \/ i >= n THEN ret ELSE loop

\* one iteration of the loop of RequestHooks.Do
RequestHooksStep(c) ==
    /\ call[c].pc = "reqHooksLoop"
    /\ LET hook == call[c].hooks[call[c].i]
           r    == RequestHookDo(hook, call[c].hdr)
       IN  /\ call' = [call EXCEPT ![c].hdr = r.hdr, ![c].err = r.err, ![c].i = @ + 1,
                         ![c].pc = LoopNext(r.err, call[c].i, Len(call[c].hooks),
                                            "reqHooksLoop", "reqHooksRet")]
           /\ trace' = [trace EXCEPT ![c] =
                          Append(@, Event("requestHook", hook.id, r.hdr, call[c].ctx, "nil", r.err))]
    /\ UNCHANGED <<agent, derived, headers, contexts, chains, last, dumper>>

\* one iteration of the loop of ResponseHooks.Do
ResponseHooksStep(c) ==
    /\ call[c].pc = "resHooksLoop"
    /\ LET hook == call[c].hooks[call[c].i]
           r    == ResponseHookDo(hook, call[c].res, call[c].resHdr)
       IN  /\ call' = [call EXCEPT ![c].resHdr = r.hdr, ![c].err = r.err, ![c].i = @ + 1,
                         ![c].pc = IF r.panic THEN "panic"
                                   ELSE LoopNext(r.err, call[c].i, Len(call[c].hooks),
                                                 "resHooksLoop", "resHooksRet")]
           /\ trace' = [trace EXCEPT ![c] =
                          Append(@, Event("responseHook", hook.id, r.hdr, call[c].ctx, call[c].res, r.err))]
    /\ UNCHANGED <<agent, derived, headers, contexts, chains, last, dumper>>

\* the call returns (res, err) to its caller
Return(c, res, err) ==
    /\ call' = [call EXCEPT ![c].pc = "done", ![c].retRes = res, ![c].retErr = err]
    /\ trace' = [trace EXCEPT ![c] =
                   Append(@, Event("return", "", call[c].hdr, call[c].ctx, res, err))]

\* the caller is done with the result; the call's frame is gone
Forget(c) ==
    /\ call[c].pc = "done"
    /\ call' = [call EXCEPT ![c] = IdleCall]
    /\ trace' = [trace EXCEPT ![c] = <<>>]
    /\ UNCHANGED <<agent, derived, headers, contexts, chains, last, dumper>>

-----------------------------------------------------------------------------
(* Agent.Do, statement by statement *)

\* a Do that starts with the request hooks, the default headers forgotten
CallDo_SkipsDefaultHeader(c, hdr, ctx) ==
    /\ call[c].pc = "idle"
    /\ call' = [call EXCEPT ![c] = [IdleCall EXCEPT !.pc = "reqHooks", !.fn = "Agent.Do",
                                                    !.hdr = hdr, !.ctx = ctx]]
    /\ trace' = [trace EXCEPT ![c] = <<Event("call", "Agent.Do", hdr, ctx, "nil", "nil")>>]
    /\ UNCHANGED <<agent, derived, headers, contexts, chains, last, dumper>>

\* a caller calls agent.Do(req) with a request of headers hdr and context ctx
CallDo(c, hdr, ctx) ==
    /\ call[c].pc = "idle"
    /\ call' = [call EXCEPT ![c] = [IdleCall EXCEPT !.pc = "applyDefault", !.fn = "Agent.Do",
                                                    !.hdr = hdr, !.ctx = ctx]]
    /\ trace' = [trace EXCEPT ![c] = <<Event("call", "Agent.Do", hdr, ctx, "nil", "nil")>>]
    /\ UNCHANGED <<agent, derived, headers, contexts, chains, last, dumper>>

\* a default-header hook made when the Agent was constructed, of the header
\* the Agent had then
DefaultHeaderHook_AtConstruction ==
    [Header |-> EmptyHeader, Add |-> FALSE, SkipIfExists |-> TRUE]

\* a default-header hook that overwrites what the caller set
DefaultHeaderHook_Overwrites ==
    [Header |-> headers[agent.DefaultHeader], Add |-> FALSE, SkipIfExists |-> FALSE]

\* the hook that Do builds from the Agent's DefaultHeader
DefaultHeaderHook == [Header |-> headers[agent.DefaultHeader], Add |-> FALSE, SkipIfExists |-> TRUE]

\* a Do that keeps the headers of the request it has seen as the Agent's
\* default headers
ApplyDefaultHeader_WritesDefault(c) ==
    /\ call[c].pc = "applyDefault"
    /\ \E order \in Orders(DOMAIN headers[agent.DefaultHeader]) :
         LET hdr == RequestHeaderHookDo(DefaultHeaderHook, call[c].hdr, order)
         IN  /\ call' = [call EXCEPT ![c].hdr = hdr, ![c].err = "nil", ![c].pc = "reqHooks"]
             /\ headers' = [headers EXCEPT ![agent.DefaultHeader] = hdr]
             /\ trace' = [trace EXCEPT ![c] =
                            Append(@, Event("defaultHeader", "", hdr, call[c].ctx, "nil", "nil"))]
    /\ UNCHANGED <<agent, derived, contexts, chains, last, dumper>>

\* apply default headers; the hook's error is always nil
ApplyDefaultHeader(c) ==
    /\ call[c].pc = "applyDefault"
    /\ \E order \in Orders(DOMAIN headers[agent.DefaultHeader]) :
         LET hdr == RequestHeaderHookDo(DefaultHeaderHook, call[c].hdr, order)
         IN  /\ call' = [call EXCEPT ![c].hdr = hdr, ![c].err = "nil", ![c].pc = "reqHooks"]
             /\ trace' = [trace EXCEPT ![c] =
                            Append(@, Event("defaultHeader", "", hdr, call[c].ctx, "nil", "nil"))]
    /\ UNCHANGED <<agent, derived, headers, contexts, chains, last, dumper>>

\* do request hooks: a.RequestHooks.Do(req) is entered
RequestHooksDo(c) ==
    /\ call[c].pc = "reqHooks"
    /\ call' = [call EXCEPT ![c] = EnterLoop(@, chains[agent.RequestHooks],
                                             "reqHooksLoop", "reqHooksRet")]
    /\ UNCHANGED <<agent, derived, headers, contexts, chains, trace, last, dumper>>

\* a Do that goes on to the client although the request hooks failed
AfterRequestHooks_IgnoresError(err) ==
    [return |-> FALSE, res |-> "nil", err |-> "nil"]

\* "if err != nil { return nil, err }" after the request hooks: whether Do
\* returns here, and what
AfterRequestHooks(err) ==
    IF err # "nil" THEN [return |-> TRUE, res |-> "nil", err |-> err]
    ELSE [return |-> FALSE, res |-> "nil", err |-> "nil"]

RequestHooksReturned(c) ==
    /\ call[c].pc = "reqHooksRet"
    /\ call[c].fn = "Agent.Do"
    /\ LET r == AfterRequestHooks(call[c].err)
       IN  IF r.return
           THEN Return(c, r.res, r.err)
           ELSE call' = [call EXCEPT ![c].pc = "getClient"] /\ UNCHANGED trace
    /\ UNCHANGED <<agent, derived, headers, contexts, chains, last, dumper>>

\* a Do that never looks at the request's context
ResolveClient_IgnoresContext(ctx) == agent.Client

\* the client Do uses for a request of context ctx
ResolveClient(ctx) ==
    IF contextClient(ctx) = "nil" THEN agent.Client ELSE contextClient(ctx)

\* get client
GetClient(c) ==
    /\ call[c].pc = "getClient"
    /\ LET client == ResolveClient(call[c].ctx)
       IN  /\ call' = [call EXCEPT ![c].client = client, ![c].pc = "timeout"]
           /\ trace' = [trace EXCEPT ![c] =
                          Append(@, Event("getClient", client, call[c].hdr, call[c].ctx, "nil", "nil"))]
    /\ UNCHANGED <<agent, derived, headers, contexts, chains, last, dumper>>

\* a Do that derives the context and drops its cancel function
TimeoutScope_DropsCancel(ctx, now) ==
    IF agent.DefaultTimeout > 0
    THEN [ctx |-> WithTimeout(ctx, agent.DefaultTimeout, now), cancel |-> "nop", req |-> "copy"]
    ELSE [ctx |-> ctx, cancel |-> "nop", req |-> "req"]

\* a Do that derives a context whenever the timeout is not negative
TimeoutScope_DerivesAtZero(ctx, now) ==
    IF agent.DefaultTimeout >= 0
    THEN [ctx |-> WithTimeout(ctx, agent.DefaultTimeout, now), cancel |-> "cancel", req |-> "copy"]
    ELSE [ctx |-> ctx, cancel |-> "nop", req |-> "req"]

\* the request, its context and the cancel function after
\* "cancel := nop; if a.DefaultTimeout > 0 { ... }" at the time now;
\* req.WithContext gives a shallow copy of the request
TimeoutScope(ctx, now) ==
    IF agent.DefaultTimeout > 0
    THEN [ctx |-> WithTimeout(ctx, agent.DefaultTimeout, now), cancel |-> "cancel", req |-> "copy"]
    ELSE [ctx |-> ctx, cancel |-> "nop", req |-> "req"]

\* apply timeout
ApplyTimeout(c) ==
    /\ call[c].pc = "timeout"
    /\ LET t == TimeoutScope(call[c].ctx, call[c].now)
       IN  /\ call' = [call EXCEPT ![c].ctx = t.ctx, ![c].cancel = t.cancel, ![c].req = t.req,
                                    ![c].pc = "doRequest"]
           /\ trace' = [trace EXCEPT ![c] =
                          Append(@, Event("timeout", t.cancel, call[c].hdr, t.ctx, "nil", "nil"))]
    /\ UNCHANGED <<agent, derived, headers, contexts, chains, last, dumper>>

\* what a client's Do may give back: any pair of a response or nil and an
\* error or nil
ClientResults == [res : {"nil", "res"}, err : {"nil", "errT"}]

\* res, err := client.Do(req)
ClientDo(c) ==
    /\ call[c].pc = "doRequest"
    /\ \E out \in ClientResults :
         /\ call' = [call EXCEPT ![c].res = out.res, ![c].err = out.err, ![c].pc = "cancel"]
         /\ trace' = [trace EXCEPT ![c] =
                        Append(@, Event("client", call[c].client, call[c].hdr, call[c].ctx, out.res, out.err))]
    /\ UNCHANGED <<agent, derived, headers, contexts, chains, last, dumper>>

\* a Do that defers cancel() to its return: nothing is cancelled here
Cancel_Deferred(c) ==
    /\ call[c].pc = "cancel"
    /\ call' = [call EXCEPT ![c].pc = "clientRet"]
    /\ UNCHANGED <<agent, derived, headers, contexts, chains, trace, last, dumper>>

\* cancel()
Cancel(c) ==
    /\ call[c].pc = "cancel"
    /\ call' = [call EXCEPT ![c].pc = "clientRet"]
    /\ trace' = [trace EXCEPT ![c] =
                   Append(@, Event("cancel", call[c].cancel, call[c].hdr, call[c].ctx, "nil", "nil"))]
    /\ UNCHANGED <<agent, derived, headers, contexts, chains, last, dumper>>

\* a Do that hands back the client's response together with the client's error
AfterClient_KeepsResponse(res, err) ==
    IF err # "nil" THEN [return |-> TRUE, res |-> res, err |-> err]
    ELSE [return |-> FALSE, res |-> res, err |-> "nil"]

\* a Do that wraps the client's error in an error of its own
AfterClient_WrapsError(res, err) ==
    IF err # "nil" THEN [return |-> TRUE, res |-> "nil", err |-> "wrapped"]
    ELSE [return |-> FALSE, res |-> res, err |-> "nil"]

\* "if err != nil { return nil, err }" after the client: whether Do returns
\* here, and what
AfterClient(res, err) ==
    IF err # "nil" THEN [return |-> TRUE, res |-> "nil", err |-> err]
    ELSE [return |-> FALSE, res |-> res, err |-> "nil"]

ClientReturned(c) ==
    /\ call[c].pc = "clientRet"
    /\ LET r == AfterClient(call[c].res, call[c].err)
       IN  IF r.return
           THEN Return(c, r.res, r.err)
           ELSE call' = [call EXCEPT ![c].pc = "resHooks"] /\ UNCHANGED trace
    /\ UNCHANGED <<agent, derived, headers, contexts, chains, last, dumper>>

\* do response hooks: a.ResponseHooks.Do(res) is entered
ResponseHooksDo(c) ==
    /\ call[c].pc = "resHooks"
    /\ call' = [call EXCEPT ![c] = EnterLoop(@, chains[agent.ResponseHooks],
                                             "resHooksLoop", "resHooksRet")]
    /\ UNCHANGED <<agent, derived, headers, contexts, chains, trace, last, dumper>>

\* a Do that hands back the response although a response hook failed
AfterResponseHooks_KeepsResponse(res, err) ==
    IF err # "nil" THEN [res |-> res, err |-> err] ELSE [res |-> res, err |-> "nil"]

\* "if err != nil { return nil, err }; return res, nil" after the response hooks
AfterResponseHooks(res, err) ==
    IF err # "nil" THEN [res |-> "nil", err |-> err] ELSE [res |-> res, err |-> "nil"]

ResponseHooksReturned(c) ==
    /\ call[c].pc = "resHooksRet"
    /\ call[c].fn = "Agent.Do"
    /\ LET r == AfterResponseHooks(call[c].res, call[c].err)
       IN  Return(c, r.res, r.err)
    /\ UNCHANGED <<agent, derived, headers, contexts, chains, last, dumper>>

\* The Agent is configured while no call is in flight (the package does no
\* locking of its own), then callers dispatch requests through it.
Next ==
    \/ \E d \in Timeouts : Quiet /\ SetDefaultTimeout(d)
    \/ \E k \in RawNames, v \in Values :
         /\ Quiet
         /\ HeaderSize(HeaderSet(headers[agent.DefaultHeader], k, v)) <= MaxVals
         /\ DefaultHeaderSet(k, v)
    \/ \E k \in RawNames, v \in Values :
         /\ Quiet
         /\ HeaderSize(headers[agent.DefaultHeader]) < MaxVals
         /\ DefaultHeaderAdd(k, v)
    \/ \E hook \in {HookFunc(f) : f \in RequestFuncs} \cup {NopRequestHook} :
         /\ Quiet
         /\ HooksHeld < MaxHooks
         /\ AgentAppendRequestHook(hook)
    \/ \E hook \in {HookFunc(f) : f \in ResponseFuncs} \cup {NopResponseHook} :
         /\ Quiet
         /\ HooksHeld < MaxHooks
         /\ AgentAppendResponseHook(hook)
    \/ \E c \in Calls, hdr \in CallerHeaders, ctx \in CallerContexts : CallDo(c, hdr, ctx)
    \/ \E c \in Calls : ApplyDefaultHeader(c)
    \/ \E c \in Calls : RequestHooksDo(c)
    \/ \E c \in Calls : RequestHooksStep(c)
    \/ \E c \in Calls : RequestHooksReturned(c)
    \/ \E c \in Calls : GetClient(c)
    \/ \E c \in Calls : ApplyTimeout(c)
    \/ \E c \in Calls : ClientDo(c)
    \/ \E c \in Calls : Cancel(c)
    \/ \E c \in Calls : ClientReturned(c)
    \/ \E c \in Calls : ResponseHooksDo(c)
    \/ \E c \in Calls : ResponseHooksStep(c)
    \/ \E c \in Calls : ResponseHooksReturned(c)
    \/ \E c \in Calls : Forget(c)

Spec == Init /\ [][Next]_vars

-----------------------------------------------------------------------------
(* Chains composed and run on their own *)

\* the chains of each kind the heap holds
RequestChains == DOMAIN chains \cap RequestPtrs
ResponseChains == DOMAIN chains \cap ResponsePtrs

\* what a caller may pass as a hook: nil, the no-op, a closure, a chain
RequestHookArgs ==
    {NilHook, NopRequestHook} \cup {HookFunc(f) : f \in RequestFuncs}
        \cup {HooksPtr(q) : q \in RequestChains}
ResponseHookArgs ==
    {NilHook, NopResponseHook} \cup {HookFunc(f) : f \in ResponseFuncs}
        \cup {HooksPtr(q) : q \in ResponseChains}

\* the variadic arguments of a constructor
Varargs(S) == UNION {[1..n -> S] : n \in 0..MaxArgs}

\* the headers of the messages chains are run on
ChainHeaders == {EmptyHeader, HeaderSet(EmptyHeader, "foo", "r")}

\* hooks held by all the chains of a heap
HeapSize(hp) == SumLen(hp, DOMAIN hp)

\* h.Len()
HooksLen(p) == Len(chains[p])

\* no chain among ps holds a hook
AllEmpty(ps) == \A p \in ps : chains[p] = <<>>

\* an Append that stores a nil hook instead of panicking
RequestHooksAppendCall_StoresNil(p, hook) ==
    /\ chains' = [chains EXCEPT ![p] = RequestHooksAppend(@, hook)]
    /\ last' = [op |-> "Append", p |-> p, hook |-> hook, panicked |-> "", in |-> <<>>, out |-> <<>>]
    /\ UNCHANGED <<agent, derived, headers, contexts, call, trace, dumper>>

\* an Append whose write also lands in the chains that hold the same hooks,
\* as it would if their slices shared one array
RequestHooksAppendCall_WritesShared(p, hook) ==
    /\ chains' = IF hook = NilHook THEN chains
                 ELSE [q \in DOMAIN chains |->
                         IF q \in RequestPtrs /\ chains[q] = chains[p]
                         THEN RequestHooksAppend(chains[q], hook) ELSE chains[q]]
    /\ last' = [op |-> "Append", p |-> p, hook |-> hook,
                panicked |-> IF hook = NilHook THEN "nil hook" ELSE "", in |-> <<>>, out |-> <<>>]
    /\ UNCHANGED <<agent, derived, headers, contexts, call, trace, dumper>>

\* h.Append(hook) on the *RequestHooks p: a nil hook panics before anything
\* is stored
RequestHooksAppendCall(p, hook) ==
    /\ chains' = IF hook = NilHook THEN chains
                 ELSE [chains EXCEPT ![p] = RequestHooksAppend(@, hook)]
    /\ last' = [op |-> "Append", p |-> p, hook |-> hook,
                panicked |-> IF hook = NilHook THEN "nil hook" ELSE "", in |-> <<>>, out |-> <<>>]
    /\ UNCHANGED <<agent, derived, headers, contexts, call, trace, dumper>>

\* an Append that moves the hooks of an appended chain, leaving that chain
\* empty
ResponseHooksAppendCall_Moves(p, hook) ==
    /\ chains' = IF hook = NilHook THEN chains
                 ELSE [q \in DOMAIN chains |->
                         IF q = p THEN ResponseHooksAppend(chains[q], hook)
                         ELSE IF hook = HooksPtr(q) THEN <<>>
                         ELSE chains[q]]
    /\ last' = [op |-> "Append", p |-> p, hook |-> hook,
                panicked |-> IF hook = NilHook THEN "nil hook" ELSE "", in |-> <<>>, out |-> <<>>]
    /\ UNCHANGED <<agent, derived, headers, contexts, call, trace, dumper>>

\* h.Append(hook) on the *ResponseHooks p
ResponseHooksAppendCall(p, hook) ==
    /\ chains' = IF hook = NilHook THEN chains
                 ELSE [chains EXCEPT ![p] = ResponseHooksAppend(@, hook)]
    /\ last' = [op |-> "Append", p |-> p, hook |-> hook,
                panicked |-> IF hook = NilHook THEN "nil hook" ELSE "", in |-> <<>>, out |-> <<>>]
    /\ UNCHANGED <<agent, derived, headers, contexts, call, trace, dumper>>

\* NewRequestHooks(hooks...): Append of each argument in turn on an empty
\* chain, up to the first that panics
RECURSIVE NewRequestHooks(_)
NewRequestHooks(hooks) ==
    IF hooks = <<>> THEN [hooks |-> <<>>, panicked |-> ""]
    ELSE LET r    == NewRequestHooks(SubSeq(hooks, 1, Len(hooks) - 1))
             hook == hooks[Len(hooks)]
         IN  IF r.panicked # "" THEN r
             ELSE IF hook = NilHook THEN [r EXCEPT !.panicked = "nil hook"]
             ELSE [r EXCEPT !.hooks = RequestHooksAppend(@, hook)]

\* NewResponseHooks(hooks...)
RECURSIVE NewResponseHooks(_)
NewResponseHooks(hooks) ==
    IF hooks = <<>> THEN [hooks |-> <<>>, panicked |-> ""]
    ELSE LET r    == NewResponseHooks(SubSeq(hooks, 1, Len(hooks) - 1))
             hook == hooks[Len(hooks)]
         IN  IF r.panicked # "" THEN r
             ELSE IF hook = NilHook THEN [r EXCEPT !.panicked = "nil hook"]
             ELSE [r EXCEPT !.hooks = ResponseHooksAppend(@, hook)]

\* the heap hp with the fresh pointer p holding hs
Alloc(hp, p, hs) == [q \in DOMAIN hp \cup {p} |-> IF q = p THEN hs ELSE hp[q]]

\* p = NewRequestHooks(hooks...): nothing is returned when it panics
NewRequestHooksCall(p, hooks) ==
    /\ p \notin DOMAIN chains
    /\ LET r == NewRequestHooks(hooks)
       IN  /\ chains' = IF r.panicked = "" THEN Alloc(chains, p, r.hooks) ELSE chains
           /\ last' = [op |-> "New", p |-> p, hook |-> NilHook, panicked |-> r.panicked, in |-> <<>>, out |-> <<>>]
    /\ UNCHANGED <<agent, derived, headers, contexts, call, trace, dumper>>

\* p = NewResponseHooks(hooks...)
NewResponseHooksCall(p, hooks) ==
    /\ p \notin DOMAIN chains
    /\ LET r == NewResponseHooks(hooks)
       IN  /\ chains' = IF r.panicked = "" THEN Alloc(chains, p, r.hooks) ELSE chains
           /\ last' = [op |-> "New", p |-> p, hook |-> NilHook, panicked |-> r.panicked, in |-> <<>>, out |-> <<>>]
    /\ UNCHANGED <<agent, derived, headers, contexts, call, trace, dumper>>

\* q = p.Clone(): a new chain over a copy of the slice
HooksClone(p, q) ==
    /\ q \notin DOMAIN chains
    /\ chains' = Alloc(chains, q, chains[p])
    /\ last' = [op |-> "Clone", p |-> q, hook |-> HooksPtr(p), panicked |-> "", in |-> <<>>, out |-> <<>>]
    /\ UNCHANGED <<agent, derived, headers, contexts, call, trace, dumper>>

\* a caller, done with composing, runs p.Do(req) on the *RequestHooks p, req's
\* headers being hdr
CallRequestHooksDo(c, p, hdr) ==
    /\ call[c].pc = "idle"
    /\ call' = [call EXCEPT ![c] =
                  EnterLoop([IdleCall EXCEPT !.fn = "RequestHooks.Do", !.hdr = hdr],
                            chains[p], "reqHooksLoop", "reqHooksRet")]
    /\ trace' = [trace EXCEPT ![c] = <<Event("call", p, hdr, Background, "nil", "nil")>>]
    /\ last' = NoOp
    /\ UNCHANGED <<agent, derived, headers, contexts, chains, dumper>>

\* a caller runs p.Do(res) on the *ResponseHooks p, res being nil or a
\* response with the headers hdr
CallResponseHooksDo(c, p, res, hdr) ==
    /\ call[c].pc = "idle"
    /\ res = "nil" => hdr = EmptyHeader
    /\ call' = [call EXCEPT ![c] =
                  EnterLoop([IdleCall EXCEPT !.fn = "ResponseHooks.Do", !.res = res, !.resHdr = hdr],
                            chains[p], "resHooksLoop", "resHooksRet")]
    /\ trace' = [trace EXCEPT ![c] = <<Event("call", p, hdr, Background, res, "nil")>>]
    /\ last' = NoOp
    /\ UNCHANGED <<agent, derived, headers, contexts, chains, dumper>>

\* RequestHooks.Do returns its named result to the caller
RequestHooksDoReturned(c) ==
    /\ call[c].pc = "reqHooksRet"
    /\ call[c].fn = "RequestHooks.Do"
    /\ Return(c, "nil", call[c].err)
    /\ UNCHANGED <<agent, derived, headers, contexts, chains, last, dumper>>

\* ResponseHooks.Do returns its named result to the caller
ResponseHooksDoReturned(c) ==
    /\ call[c].pc = "resHooksRet"
    /\ call[c].fn = "ResponseHooks.Do"
    /\ Return(c, "nil", call[c].err)
    /\ UNCHANGED <<agent, derived, headers, contexts, chains, last, dumper>>

\* a call that panicked is unwound
Recover(c) ==
    /\ call[c].pc = "panic"
    /\ call' = [call EXCEPT ![c] = IdleCall]
    /\ trace' = [trace EXCEPT ![c] = <<>>]
    /\ UNCHANGED <<agent, derived, headers, contexts, chains, last, dumper>>

\* Chains are built and composed while no call is in flight, and run on
\* messages.  The two kinds of chain share no code and no state, so one
\* behaviour stores hooks in chains of one kind only.
NextHooks ==
    \/ /\ Quiet
       /\ AllEmpty(ResponseChains)
       /\ \E p \in RequestChains, hook \in RequestHookArgs :
            /\ RequestHooksAppendCall(p, hook)
            /\ HeapSize(chains') <= MaxHeap
    \/ /\ Quiet
       /\ AllEmpty(RequestChains)
       /\ \E p \in ResponseChains, hook \in ResponseHookArgs :
            /\ ResponseHooksAppendCall(p, hook)
            /\ HeapSize(chains') <= MaxHeap
    \/ /\ Quiet
       /\ AllEmpty(ResponseChains)
       /\ \E p \in RequestPtrs \ DOMAIN chains, hooks \in Varargs(RequestHookArgs) :
            /\ NewRequestHooksCall(p, hooks)
            /\ HeapSize(chains') <= MaxHeap
    \/ /\ Quiet
       /\ AllEmpty(RequestChains)
       /\ \E p \in ResponsePtrs \ DOMAIN chains, hooks \in Varargs(ResponseHookArgs) :
            /\ NewResponseHooksCall(p, hooks)
            /\ HeapSize(chains') <= MaxHeap
    \/ /\ Quiet
       /\ \E p \in RequestChains, q \in RequestPtrs \ DOMAIN chains :
            /\ HooksClone(p, q)
            /\ HeapSize(chains') <= MaxHeap
    \/ /\ Quiet
       /\ \E p \in ResponseChains, q \in ResponsePtrs \ DOMAIN chains :
            /\ HooksClone(p, q)
            /\ HeapSize(chains') <= MaxHeap
    \/ \E c \in Calls, p \in RequestChains, hdr \in ChainHeaders : CallRequestHooksDo(c, p, hdr)
    \/ \E c \in Calls, p \in ResponseChains, res \in {"nil", "res"}, hdr \in ChainHeaders :
         CallResponseHooksDo(c, p, res, hdr)
    \/ \E c \in Calls : RequestHooksStep(c)
    \/ \E c \in Calls : ResponseHooksStep(c)
    \/ \E c \in Calls : RequestHooksDoReturned(c)
    \/ \E c \in Calls : ResponseHooksDoReturned(c)
    \/ \E c \in Calls : Forget(c)
    \/ \E c \in Calls : Recover(c)

SpecHooks == Init /\ [][NextHooks]_vars

-----------------------------------------------------------------------------
(* Agent.Do under a clock: deadlines *)

\* values of DefaultTimeout when time is watched: a longer one too
LongTimeouts == Timeouts \cup {2}

\* the contexts of the requests callers pass to Do when time is watched:
\* with a deadline of their own (on the clock of the call, which starts at
\* IdleCall.now), near or far, or without one
DeadlineContexts ==
    {Background,
     WithDeadline(Background, "deadline", 0, 1),
     WithDeadline(Background, "deadline", 0, 3),
     ContextWithClient(WithDeadline(Background, "deadline", 0, 2), "ctxClient")}

\* time passes while a hook or the client runs
Elapse(c) ==
    /\ call[c].pc \in {"reqHooksLoop", "doRequest", "resHooksLoop"}
    /\ call' = [call EXCEPT ![c].now = @ + 1]
    /\ UNCHANGED <<agent, derived, headers, contexts, chains, trace, last, dumper>>

\* The Agent is given a timeout and request hooks, then requests whose
\* contexts may carry deadlines are dispatched while the clock runs.
NextTime ==
    \/ \E d \in LongTimeouts : Quiet /\ SetDefaultTimeout(d)
    \/ \E hook \in {HookFunc(f) : f \in RequestFuncs} :
         /\ Quiet
         /\ HooksHeld < MaxHooks
         /\ AgentAppendRequestHook(hook)
    \/ \E c \in Calls, ctx \in DeadlineContexts : CallDo(c, EmptyHeader, ctx)
    \/ \E c \in Calls : ApplyDefaultHeader(c)
    \/ \E c \in Calls : RequestHooksDo(c)
    \/ \E c \in Calls : RequestHooksStep(c)
    \/ \E c \in Calls : RequestHooksReturned(c)
    \/ \E c \in Calls : GetClient(c)
    \/ \E c \in Calls : ApplyTimeout(c)
    \/ \E c \in Calls : ClientDo(c)
    \/ \E c \in Calls : Cancel(c)
    \/ \E c \in Calls : ClientReturned(c)
    \/ \E c \in Calls : ResponseHooksDo(c)
    \/ \E c \in Calls : ResponseHooksReturned(c)
    \/ \E c \in Calls : Forget(c)
    \/ \E c \in Calls : call[c].now < MaxTime /\ Elapse(c)

SpecTime == Init /\ [][NextTime]_vars

-----------------------------------------------------------------------------
(* Agent.WithClient: two Agents side by side *)

\* the http.Header, *RequestHooks and *ResponseHooks that WithClient allocates
DerivedHeader == "h1"
DerivedRequestHooks == "rq1"
DerivedResponseHooks == "rs1"

\* values a configuration gives a default header, and the closures it hooks
\* in, when two Agents are configured side by side
DerivedValues == {"1"}
DerivedFuncs == {"set"}

\* a WithClient that copies the Agent struct and replaces its client: the
\* header map and the chains are those of the receiver
WithClient_CopiesStruct(client) ==
    /\ derived = NilAgent
    /\ derived' = [agent EXCEPT !.Client = client]
    /\ last' = [op |-> "WithClient", p |-> "", hook |-> NilHook, panicked |-> "",
                in |-> <<client>>, out |-> <<>>]
    /\ UNCHANGED <<agent, headers, contexts, chains, call, trace, dumper>>

\* derived = agent.WithClient(client): the client, the timeout, a clone of the
\* header map and clones of the two chains
WithClient(client) ==
    /\ derived = NilAgent
    /\ derived' = [Client |-> client, DefaultTimeout |-> agent.DefaultTimeout,
                   DefaultHeader |-> DerivedHeader,
                   RequestHooks |-> DerivedRequestHooks,
                   ResponseHooks |-> DerivedResponseHooks]
    /\ headers' = [p \in DOMAIN headers \cup {DerivedHeader} |->
                     IF p = DerivedHeader THEN headers[agent.DefaultHeader] ELSE headers[p]]
    /\ chains' = Alloc(Alloc(chains, DerivedRequestHooks, chains[agent.RequestHooks]),
                       DerivedResponseHooks, chains[agent.ResponseHooks])
    /\ last' = [op |-> "WithClient", p |-> "", hook |-> NilHook, panicked |-> "",
                in |-> <<client>>, out |-> <<>>]
    /\ UNCHANGED <<agent, contexts, call, trace, dumper>>

\* derived.DefaultHeader.Set(k, v)
DerivedHeaderSet(k, v) ==
    /\ derived # NilAgent
    /\ headers' = [headers EXCEPT ![derived.DefaultHeader] = HeaderSet(@, k, v)]
    /\ UNCHANGED <<agent, derived, contexts, chains, call, trace, last, dumper>>

\* derived.DefaultHeader.Add(k, v)
DerivedHeaderAdd(k, v) ==
    /\ derived # NilAgent
    /\ headers' = [headers EXCEPT ![derived.DefaultHeader] = HeaderAdd(@, k, v)]
    /\ UNCHANGED <<agent, derived, contexts, chains, call, trace, last, dumper>>

\* derived.RequestHooks.Append(hook), hook not nil
DerivedAppendRequestHook(hook) ==
    /\ derived # NilAgent
    /\ chains' = [chains EXCEPT ![derived.RequestHooks] = RequestHooksAppend(@, hook)]
    /\ UNCHANGED <<agent, derived, headers, contexts, call, trace, last, dumper>>

\* derived.ResponseHooks.Append(hook), hook not nil
DerivedAppendResponseHook(hook) ==
    /\ derived # NilAgent
    /\ chains' = [chains EXCEPT ![derived.ResponseHooks] = ResponseHooksAppend(@, hook)]
    /\ UNCHANGED <<agent, derived, headers, contexts, call, trace, last, dumper>>

\* hooks held by the two chains of the Agent struct x
HooksHeldBy(x) == Len(chains[x.RequestHooks]) + Len(chains[x.ResponseHooks])

\* a mutation of the configuration made through the Agent
ThroughAgent ==
    \/ \E k \in RawNames, v \in DerivedValues :
         /\ HeaderSize(HeaderSet(headers[agent.DefaultHeader], k, v)) <= MaxVals
         /\ DefaultHeaderSet(k, v)
    \/ \E k \in RawNames, v \in DerivedValues :
         /\ HeaderSize(headers[agent.DefaultHeader]) < MaxVals
         /\ DefaultHeaderAdd(k, v)
    \/ \E f \in DerivedFuncs :
         /\ HooksHeldBy(agent) < MaxHooks
         /\ AgentAppendRequestHook(HookFunc(f))
    \/ \E f \in DerivedFuncs :
         /\ HooksHeldBy(agent) < MaxHooks
         /\ AgentAppendResponseHook(HookFunc(f))

\* a mutation of the configuration made through the Agent WithClient returned
ThroughDerived ==
    \/ \E k \in RawNames, v \in DerivedValues :
         /\ derived # NilAgent
         /\ HeaderSize(HeaderSet(headers[derived.DefaultHeader], k, v)) <= MaxVals
         /\ DerivedHeaderSet(k, v)
    \/ \E k \in RawNames, v \in DerivedValues :
         /\ derived # NilAgent
         /\ HeaderSize(headers[derived.DefaultHeader]) < MaxVals
         /\ DerivedHeaderAdd(k, v)
    \/ \E f \in DerivedFuncs :
         /\ derived # NilAgent
         /\ HooksHeldBy(derived) < MaxHooks
         /\ DerivedAppendRequestHook(HookFunc(f))
    \/ \E f \in DerivedFuncs :
         /\ derived # NilAgent
         /\ HooksHeldBy(derived) < MaxHooks
         /\ DerivedAppendResponseHook(HookFunc(f))

\* An Agent is configured, a second one is made of it with WithClient, and
\* both are configured further.
NextWith ==
    \/ \E d \in Timeouts : SetDefaultTimeout(d)
    \/ ThroughAgent
    \/ \E client \in {"otherClient"} : WithClient(client)
    \/ ThroughDerived

SpecWith == Init /\ [][NextWith]_vars

-----------------------------------------------------------------------------
(* ContextWithClient and contextClient on the contexts a caller holds *)

\* the clients callers attach: the nil interface, two clients, and a nil
\* pointer of a client type (an interface value that is not nil)
AttachedClients == {"nil", "clientA", "clientB", "typedNil"}

\* a ContextWithClient without the nil check
ContextWithClientCall_AcceptsNil(p, client) ==
    /\ p \in DOMAIN contexts
    /\ LET q == Len(contexts) + 1
       IN  /\ contexts' = Append(contexts, ContextWithClient(contexts[p], client))
           /\ last' = [op |-> "ContextWithClient", p |-> "", hook |-> NilHook,
                       panicked |-> "", in |-> <<p, client>>, out |-> <<q>>]
    /\ UNCHANGED <<agent, derived, headers, chains, call, trace, dumper>>

\* ContextWithClient(contexts[p], client): panics on the nil interface, else
\* returns a new context, which the caller holds from then on
ContextWithClientCall(p, client) ==
    /\ p \in DOMAIN contexts
    /\ IF client = "nil"
       THEN /\ last' = [op |-> "ContextWithClient", p |-> "", hook |-> NilHook,
                        panicked |-> "nil client", in |-> <<p, client>>, out |-> <<>>]
            /\ UNCHANGED contexts
       ELSE LET q == Len(contexts) + 1
            IN  /\ contexts' = Append(contexts, ContextWithClient(contexts[p], client))
                /\ last' = [op |-> "ContextWithClient", p |-> "", hook |-> NilHook,
                            panicked |-> "", in |-> <<p, client>>, out |-> <<q>>]
    /\ UNCHANGED <<agent, derived, headers, chains, call, trace, dumper>>

\* context.WithDeadline(contexts[p], t): a context derived by the caller (or
\* by Do) in another way than ContextWithClient
WithDeadlineCall(p, t) ==
    /\ p \in DOMAIN contexts
    /\ LET q == Len(contexts) + 1
       IN  /\ contexts' = Append(contexts, WithDeadline(contexts[p], "deadline", 0, t))
           /\ last' = [op |-> "WithDeadline", p |-> "", hook |-> NilHook,
                       panicked |-> "", in |-> <<p, t>>, out |-> <<q>>]
    /\ UNCHANGED <<agent, derived, headers, chains, call, trace, dumper>>

\* contextClient(contexts[p])
contextClientCall(p) ==
    /\ p \in DOMAIN contexts
    /\ last' = [op |-> "contextClient", p |-> "", hook |-> NilHook,
                panicked |-> "", in |-> <<p>>, out |-> <<contextClient(contexts[p])>>]
    /\ UNCHANGED <<agent, derived, headers, contexts, chains, call, trace, dumper>>

\* A caller derives contexts from context.Background() and from one another
\* and looks the client of each up.
NextContext ==
    \/ \E p \in DOMAIN contexts, client \in AttachedClients :
         /\ Len(contexts) < MaxContexts
         /\ ContextWithClientCall(p, client)
    \/ \E p \in DOMAIN contexts, t \in {1} :
         /\ Len(contexts) < MaxContexts
         /\ WithDeadlineCall(p, t)
    \/ \E p \in DOMAIN contexts : contextClientCall(p)

SpecContext == Init /\ [][NextContext]_vars

-----------------------------------------------------------------------------
(* NewAgent over an Agent that was configured *)

\* the clients NewAgent is given; nil is one of them
NewClients == {"agentClient", "otherClient", "nil"}

\* a constructor that puts the client into the Agent at hand
NewAgentCall_KeepsConfig(client) ==
    /\ agent' = [agent EXCEPT !.Client = client]
    /\ last' = [op |-> "NewAgent", p |-> "", hook |-> NilHook, panicked |-> "",
                in |-> <<client>>, out |-> <<>>]
    /\ UNCHANGED <<derived, headers, contexts, chains, call, trace, dumper>>

\* agent = NewAgent(client): a new header map and new chains take the place
\* of the ones the variable led to
NewAgentCall(client) ==
    /\ agent' = NewAgent(client)
    /\ headers' = [headers EXCEPT ![AgentHeader] = EmptyHeader]
    /\ chains' = [chains EXCEPT ![AgentRequestHooks] = NewRequestHooks(<<>>).hooks,
                                ![AgentResponseHooks] = NewResponseHooks(<<>>).hooks]
    /\ last' = [op |-> "NewAgent", p |-> "", hook |-> NilHook, panicked |-> "",
                in |-> <<client>>, out |-> <<>>]
    /\ UNCHANGED <<derived, contexts, call, trace, dumper>>

\* An Agent is configured and a new one is constructed in its place.
NextNew ==
    \/ \E d \in Timeouts : SetDefaultTimeout(d)
    \/ ThroughAgent
    \/ \E client \in NewClients : NewAgentCall(client)

SpecNew == Init /\ [][NextNew]_vars

-----------------------------------------------------------------------------
(* RequestHeaderHook.Do on the requests of callers *)

\* the map hook.Header of the RequestHeaderHook and the map req.Header of the
\* request it is applied to
HookHeader == "hh"
RequestHeader == "rh"

\* the headers a hook is configured with, by Header.Set and Header.Add: one
\* name or two, one value or two for a name, or none at all
HookHeaders ==
    {EmptyHeader,
     HeaderSet(EmptyHeader, "Foo", "1"),
     HeaderSet(EmptyHeader, "Bar", "2"),
     HeaderAdd(HeaderSet(EmptyHeader, "foo", "1"), "Foo", "2"),
     HeaderSet(HeaderSet(EmptyHeader, "Foo", "1"), "Bar", "2"),
     HeaderSet(HeaderAdd(HeaderSet(EmptyHeader, "Foo", "2"), "Foo", "1"), "Bar", "1")}

\* the headers of the request: none, names the hook may be configured with,
\* and a name it is never configured with
RequestHeaders ==
    {EmptyHeader,
     HeaderSet(EmptyHeader, "Foo", "r"),
     HeaderSet(EmptyHeader, "Bar", "r"),
     HeaderAdd(HeaderSet(EmptyHeader, "Foo", "r"), "foo", "s"),
     HeaderSet(HeaderSet(EmptyHeader, "Foo", "r"), "Bar", "s"),
     HeaderSet(EmptyHeader, "Baz", "r"),
     HeaderSet(HeaderSet(EmptyHeader, "Bar", "1"), "Baz", "r")}

\* a hook and a request, before the hook is applied
InitHeaderHook ==
    /\ agent = NewAgent("agentClient")
    /\ derived = NilAgent
    /\ \E hh \in HookHeaders, rh \in RequestHeaders :
         headers = [p \in {AgentHeader, HookHeader, RequestHeader} |->
                      IF p = HookHeader THEN hh ELSE IF p = RequestHeader THEN rh
                      ELSE EmptyHeader]
    /\ contexts = <<Background>>
    /\ chains = [p \in {AgentRequestHooks, AgentResponseHooks} |-> <<>>]
    /\ call = [c \in {"c1"} |-> IdleCall]
    /\ trace = [c \in {"c1"} |-> <<>>]
    /\ last = NoOp
    /\ dumper = IdleDumper

\* (&RequestHeaderHook{Header: hook.Header, Add: add, SkipIfExists: skip}).Do(req),
\* the range visiting the names in the given order
RequestHeaderHookDoCall(add, skip, order) ==
    LET h == [Header |-> headers[HookHeader], Add |-> add, SkipIfExists |-> skip]
    IN  /\ headers' = [headers EXCEPT ![RequestHeader] = RequestHeaderHookDo(h, @, order)]
        /\ last' = [op |-> "RequestHeaderHook.Do", p |-> "", hook |-> NilHook,
                    panicked |-> "", in |-> <<h, headers[RequestHeader]>>,
                    out |-> <<"nil">>]
        /\ UNCHANGED <<agent, derived, contexts, chains, call, trace, dumper>>

\* Header hooks of every mode are applied to a request, one after another.
NextHeaderHook ==
    \E add, skip \in BOOLEAN, order \in Orders(DOMAIN headers[HookHeader]) :
        /\ HeaderSize(headers[RequestHeader]) + Len(order) <= MaxRequestVals
        /\ RequestHeaderHookDoCall(add, skip, order)

SpecHeaderHook == InitHeaderHook /\ [][NextHeaderHook]_vars

-----------------------------------------------------------------------------
(* RequestDumperHook.Do and ResponseDumperHook.Do *)

\* the dumper hooks: the request dumper, and the response dumper in the two
\* versions the repository holds, one of which appends no newline
Dumpers ==
    {[hook |-> "RequestDumperHook", newline |-> TRUE],
     [hook |-> "ResponseDumperHook", newline |-> TRUE],
     [hook |-> "ResponseDumperHook", newline |-> FALSE]}

\* what httputil.DumpRequestOut / DumpResponse give for a message: bytes, the
\* n-th being n, at least one and at most MaxDump of them
Dumps == {[i \in 1..n |-> i] : n \in 1..MaxDump}
Newline == 0

\* what a Write of the Writer may return
WriteErrors == {"nil", "errWrite"}

\* h.Do(message) up to the loop: the dump fails and its error is returned, or
\* the dump is made (and the newline appended) and nothing is written yet
DumperDo(h, body, err) ==
    /\ dumper.pc = "idle"
    /\ dumper' = IF err # "nil"
                 THEN [dumper EXCEPT !.pc = "done", !.hook = h.hook, !.ret = err]
                 ELSE [dumper EXCEPT !.pc = "loop", !.hook = h.hook, !.body = body,
                                     !.dump = IF h.newline THEN Append(body, Newline)
                                              ELSE body]
    /\ UNCHANGED <<agent, derived, headers, contexts, chains, call, trace, last>>

\* one turn of the loop: h.Writer.Write(dump) takes the first n bytes of what
\* it is given and returns (n, err); an error is returned, else wrote += n
DumperWrite(n, err) ==
    /\ dumper.pc = "loop"
    /\ dumper.wrote < Len(dumper.dump)
    /\ n \in 0..Len(dumper.dump)
    /\ dumper' = IF err # "nil"
                 THEN [dumper EXCEPT !.pc = "done", !.ret = err,
                                     !.received = @ \o SubSeq(dumper.dump, 1, n)]
                 ELSE [dumper EXCEPT !.wrote = @ + n,
                                     !.received = @ \o SubSeq(dumper.dump, 1, n)]
    /\ UNCHANGED <<agent, derived, headers, contexts, chains, call, trace, last>>

\* the loop is left and err, which is nil, is returned
DumperReturn ==
    /\ dumper.pc = "loop"
    /\ dumper.wrote >= Len(dumper.dump)
    /\ dumper' = [dumper EXCEPT !.pc = "done", !.ret = "nil"]
    /\ UNCHANGED <<agent, derived, headers, contexts, chains, call, trace, last>>

\* A dumper hook is applied to a message; its Writer takes all or part of
\* what each Write hands it, or fails.
NextDump ==
    \/ \E h \in Dumpers, body \in Dumps, err \in {"nil", "errDump"} : DumperDo(h, body, err)
    \/ \E n \in 0..(MaxDump + 1), err \in WriteErrors : DumperWrite(n, err)
    \/ DumperReturn

SpecDump == Init /\ [][NextDump]_vars

-----------------------------------------------------------------------------
(* Two calls of Agent.Do on one Agent at a time *)

\* the requests of the two callers: distinct requests with headers and
\* contexts of their own
TwoRequests ==
    [c \in {"c1", "c2"} |->
        IF c = "c1"
        THEN {[hdr |-> EmptyHeader, ctx |-> Background],
              [hdr |-> HeaderSet(EmptyHeader, "Foo", "r"), ctx |-> Background]}
        ELSE {[hdr |-> HeaderSet(EmptyHeader, "Bar", "s"), ctx |-> Background],
              [hdr |-> HeaderSet(EmptyHeader, "Bar", "s"),
               ctx |-> ContextWithClient(Background, "ctxClient")]}]

\* an Agent and two callers, none of which has called yet
InitTwo ==
    /\ agent = NewAgent("agentClient")
    /\ derived = NilAgent
    /\ headers = [p \in {AgentHeader} |-> EmptyHeader]
    /\ contexts = <<Background>>
    /\ chains = [p \in {AgentRequestHooks, AgentResponseHooks} |-> <<>>]
    /\ call = [c \in DOMAIN TwoRequests |-> IdleCall]
    /\ trace = [c \in DOMAIN TwoRequests |-> <<>>]
    /\ last = NoOp
    /\ dumper = IdleDumper

\* The Agent is configured, then the two callers call Do, their steps taken
\* in any order.
NextTwo ==
    \/ \E d \in {1} : Quiet /\ SetDefaultTimeout(d)
    \/ \E k \in {"foo"}, v \in {"1"} : Quiet /\ DefaultHeaderSet(k, v)
    \/ \E f \in RequestFuncs :
         /\ Quiet
         /\ HooksHeld < MaxHooks
         /\ AgentAppendRequestHook(HookFunc(f))
    \/ \E f \in ResponseFuncs :
         /\ Quiet
         /\ HooksHeld < MaxHooks
         /\ AgentAppendResponseHook(HookFunc(f))
    \/ \E c \in Calls : \E rq \in TwoRequests[c] : CallDo(c, rq.hdr, rq.ctx)
    \/ \E c \in Calls : ApplyDefaultHeader(c)
    \/ \E c \in Calls : RequestHooksDo(c)
    \/ \E c \in Calls : RequestHooksStep(c)
    \/ \E c \in Calls : RequestHooksReturned(c)
    \/ \E c \in Calls : GetClient(c)
    \/ \E c \in Calls : ApplyTimeout(c)
    \/ \E c \in Calls : ClientDo(c)
    \/ \E c \in Calls : Cancel(c)
    \/ \E c \in Calls : ClientReturned(c)
    \/ \E c \in Calls : ResponseHooksDo(c)
    \/ \E c \in Calls : ResponseHooksStep(c)
    \/ \E c \in Calls : ResponseHooksReturned(c)

SpecTwo == InitTwo /\ [][NextTwo]_vars

-----------------------------------------------------------------------------
(* The Agent's DefaultHeader between calls of Do *)

\* http.Header.Del: removes the canonical name and its values
HeaderDel(h, k) == [x \in DOMAIN h \ {CanonicalHeaderKey(k)} |-> h[x]]

\* agent.DefaultHeader.Del(k)
DefaultHeaderDel(k) ==
    /\ headers' = [headers EXCEPT ![agent.DefaultHeader] = HeaderDel(@, k)]
    /\ UNCHANGED <<agent, derived, contexts, chains, call, trace, last, dumper>>

\* no call is in flight, each has not started or has returned, and one is
\* still to come
AtRest ==
    /\ \A c \in Calls : call[c].pc \in {"idle", "done"}
    /\ \E c \in Calls : call[c].pc = "idle"

\* The Agent's default headers are set, changed and deleted, and a request
\* hook is appended, before a first call of Do and between it and a second.
NextDefaults ==
    \/ \E k \in {"foo", "Bar"}, v \in Values :
         /\ AtRest
         /\ HeaderSize(HeaderSet(headers[agent.DefaultHeader], k, v)) <= MaxVals
         /\ DefaultHeaderSet(k, v)
    \/ \E k \in {"foo", "Bar"} : AtRest /\ DefaultHeaderDel(k)
    \/ \E f \in {"set"} :
         /\ AtRest
         /\ HooksHeld = 0
         /\ AgentAppendRequestHook(HookFunc(f))
    \/ \E c \in Calls : \E rq \in TwoRequests["c1"] :
         /\ AtRest
         /\ c = "c2" => call["c1"].pc = "done"
         /\ CallDo(c, rq.hdr, rq.ctx)
    \/ \E c \in Calls : ApplyDefaultHeader(c)
    \/ \E c \in Calls : RequestHooksDo(c)
    \/ \E c \in Calls : RequestHooksStep(c)
    \/ \E c \in Calls : RequestHooksReturned(c)
    \/ \E c \in Calls : GetClient(c)
    \/ \E c \in Calls : ApplyTimeout(c)
    \/ \E c \in Calls : ClientDo(c)
    \/ \E c \in Calls : Cancel(c)
    \/ \E c \in Calls : ClientReturned(c)
    \/ \E c \in Calls : ResponseHooksDo(c)
    \/ \E c \in Calls : ResponseHooksReturned(c)

SpecDefaults == InitTwo /\ [][NextDefaults]_vars

-----------------------------------------------------------------------------
(* Hooks that append to the chain that runs them *)

\* closures that, run as a hook, call Append on the chain that runs them
Appenders == {"appendSet", "appendErr"}

\* the hook such a closure appends, in a chain of requests or of responses
AppendedHook(fn, id) ==
    IF id = "appendSet" THEN HookFunc("set")
    ELSE IF fn = "RequestHooks.Do" THEN HookFunc("errA") ELSE HookFunc("errB")

\* the hook the loop of call c is at is one of these closures
AtAppender(c) ==
    /\ call[c].pc \in {"reqHooksLoop", "resHooksLoop"}
    /\ call[c].hooks[call[c].i].id \in Appenders

\* a loop that reads h.hooks again at every iteration
HookAppends_RangesOverChain(c) ==
    /\ AtAppender(c)
    /\ LET hook == call[c].hooks[call[c].i]
           p    == trace[c][1].who
           new  == AppendedHook(call[c].fn, hook.id)
           req  == call[c].fn = "RequestHooks.Do"
           hs   == IF req THEN RequestHooksAppend(chains[p], new)
                   ELSE ResponseHooksAppend(chains[p], new)
       IN  /\ chains' = [chains EXCEPT ![p] = hs]
           /\ call' = [call EXCEPT ![c].hooks = hs, ![c].err = "nil", ![c].i = @ + 1,
                         ![c].pc = LoopNext("nil", call[c].i, Len(hs), call[c].pc,
                                            IF req THEN "reqHooksRet" ELSE "resHooksRet")]
           /\ trace' = [trace EXCEPT ![c] =
                          Append(@, Event(IF req THEN "requestHook" ELSE "responseHook", hook.id,
                                          IF req THEN call[c].hdr ELSE call[c].resHdr,
                                          call[c].ctx, call[c].res, "nil"))]
           /\ last' = [op |-> "Append", p |-> p, hook |-> new, panicked |-> "",
                       in |-> <<>>, out |-> <<>>]
    /\ UNCHANGED <<agent, derived, headers, contexts, dumper>>

\* one iteration of the loop of Do whose hook calls h.Append(new) on the chain
\* h that is being run and returns nil: Append assigns h.hooks, and the range
\* goes on over the slice it evaluated when the loop was entered
HookAppends(c) ==
    /\ AtAppender(c)
    /\ LET hook == call[c].hooks[call[c].i]
           p    == trace[c][1].who
           new  == AppendedHook(call[c].fn, hook.id)
           req  == call[c].fn = "RequestHooks.Do"
           hs   == IF req THEN RequestHooksAppend(chains[p], new)
                   ELSE ResponseHooksAppend(chains[p], new)
       IN  /\ chains' = [chains EXCEPT ![p] = hs]
           /\ call' = [call EXCEPT ![c].err = "nil", ![c].i = @ + 1,
                         ![c].pc = LoopNext("nil", call[c].i, Len(call[c].hooks), call[c].pc,
                                            IF req THEN "reqHooksRet" ELSE "resHooksRet")]
           /\ trace' = [trace EXCEPT ![c] =
                          Append(@, Event(IF req THEN "requestHook" ELSE "responseHook", hook.id,
                                          IF req THEN call[c].hdr ELSE call[c].resHdr,
                                          call[c].ctx, call[c].res, "nil"))]
           /\ last' = [op |-> "Append", p |-> p, hook |-> new, panicked |-> "",
                       in |-> <<>>, out |-> <<>>]
    /\ UNCHANGED <<agent, derived, headers, contexts, dumper>>

\* A chain of one kind is composed while no call is in flight, closures that
\* append among its hooks; then it is run on a message, and run once more.
NextAppending ==
    \/ /\ Quiet
       /\ AllEmpty({AgentResponseHooks})
       /\ HooksLen(AgentRequestHooks) < MaxHooks
       /\ \E f \in RequestFuncs \cup Appenders :
            RequestHooksAppendCall(AgentRequestHooks, HookFunc(f))
    \/ /\ Quiet
       /\ AllEmpty({AgentRequestHooks})
       /\ HooksLen(AgentResponseHooks) < MaxHooks
       /\ \E f \in ResponseFuncs \cup Appenders :
            ResponseHooksAppendCall(AgentResponseHooks, HookFunc(f))
    \/ \E c \in Calls, hdr \in ChainHeaders :
         /\ c = "c2" => call["c1"].pc = "done"
         /\ CallRequestHooksDo(c, AgentRequestHooks, hdr)
    \/ \E c \in Calls, hdr \in ChainHeaders :
         /\ c = "c2" => call["c1"].pc = "done"
         /\ CallResponseHooksDo(c, AgentResponseHooks, "res", hdr)
    \/ \E c \in Calls : ~AtAppender(c) /\ RequestHooksStep(c)
    \/ \E c \in Calls : ~AtAppender(c) /\ ResponseHooksStep(c)
    \/ \E c \in Calls : HookAppends(c) /\ HeapSize(chains') <= MaxHeap
    \/ \E c \in Calls : RequestHooksDoReturned(c)
    \/ \E c \in Calls : ResponseHooksDoReturned(c)

SpecAppending == InitTwo /\ [][NextAppending]_vars

-----------------------------------------------------------------------------
(* What the histories say *)

\* the places of the events of one kind in the history of call c
Idx(c, ev) == {n \in DOMAIN trace[c] : trace[c][n].ev = ev}

\* c is a call of Agent.Do; it has returned
InDo(c) == call[c].fn = "Agent.Do"
Done(c) == InDo(c) /\ call[c].pc = "done"

\* the hooks of one kind that returned an error in call c
Failed(c, ev) == {n \in Idx(c, ev) : trace[c][n].err # "nil"}

\* Do returned a response and no error, or no response and an error
ExactlyOne(c) ==
    \/ call[c].retRes # "nil" /\ call[c].retErr = "nil"
    \/ call[c].retRes = "nil" /\ call[c].retErr # "nil"

\* the client of call c returned neither a response nor an error
ClientGaveNothing(c) ==
    \E n \in Idx(c, "client") : trace[c][n].res = "nil" /\ trace[c][n].err = "nil"

\* C1 as stated: whatever the client and the hooks do, Agent.Do returns
\* either a response and a nil error or a nil response and a non-nil error.
C1_Original == \A c \in Calls : Done(c) => ExactlyOne(c)

\* C1 as amended: whatever the hooks do, and whatever a client does that
\* returns a response or an error (or both), Agent.Do returns either a
\* response and a nil error or a nil response and a non-nil error; when the
\* client returns neither, Do returns a nil response, with a nil error unless
\* a response hook failed.
C1_Amended ==
    \A c \in Calls : Done(c) =>
        IF ClientGaveNothing(c)
        THEN /\ call[c].retRes = "nil"
             /\ (call[c].retErr = "nil") <=> (Failed(c, "responseHook") = {})
        ELSE ExactlyOne(c)

\* a Do has returned after its client gave a response together with an error
C1_Witness ==
    \E c \in Calls :
        /\ Done(c)
        /\ \E n \in Idx(c, "client") : trace[c][n].res = "res" /\ trace[c][n].err = "errT"
        /\ call[c].retRes = "nil" /\ call[c].retErr = "errT"

\* C2: once a request hook has returned an error, the call invokes no
\* client, derives no timeout context, runs no response hook, and returns a
\* nil response with that hook's error.
C2_RequestHookErrorAborts ==
    \A c \in Calls : InDo(c) =>
        \A n \in Failed(c, "requestHook") :
            /\ Idx(c, "getClient") = {} /\ Idx(c, "client") = {}
            /\ Idx(c, "timeout") = {} /\ ~IsDerived(call[c].ctx)
            /\ Idx(c, "cancel") = {} /\ Idx(c, "responseHook") = {}
            /\ call[c].pc \in {"reqHooksRet", "done"}
            /\ call[c].pc = "done" =>
                 /\ call[c].retRes = "nil"
                 /\ call[c].retErr = trace[c][n].err
                 /\ call[c].retErr = trace[c][n].who

\* a Do has returned after a request hook failed, the Agent having a timeout
C2_Witness ==
    \E c \in Calls :
        /\ Done(c)
        /\ Failed(c, "requestHook") # {}
        /\ agent.DefaultTimeout > 0

\* c is a call of a chain's Do made by a caller
InChainDo(c) == call[c].fn \in {"RequestHooks.Do", "ResponseHooks.Do"}

\* the hooks the call c has run so far, in the order they ran
HookEvents(c) ==
    SelectSeq(trace[c], LAMBDA e : e.ev \in {"requestHook", "responseHook"})

\* the header of the message the call c runs its chain on
MessageHeader(c) ==
    IF call[c].fn = "RequestHooks.Do" THEN call[c].hdr ELSE call[c].resHdr

\* what running hs in order up to the first error does to a message with the
\* headers hdr: the hooks that run, the headers left, the error
RECURSIVE FailFast(_, _, _, _)
FailFast(fn, hs, res, hdr) ==
    IF hs = <<>> THEN [ran |-> <<>>, hdr |-> hdr, err |-> "nil"]
    ELSE LET r == IF fn = "RequestHooks.Do" THEN RequestHookDo(Head(hs), hdr)
                  ELSE ResponseHookDo(Head(hs), res, hdr)
         IN  IF r.err # "nil"
             THEN [ran |-> <<Head(hs)>>, hdr |-> r.hdr, err |-> r.err]
             ELSE LET t == FailFast(fn, Tail(hs), res, r.hdr)
                  IN  [t EXCEPT !.ran = <<Head(hs)>> \o @]

\* C3: a chain's Do (request or response) on any message runs the chain's
\* hooks in sequence order, stops at the first hook that returns an error,
\* runs no hook after it, returns that hook's error, leaves on the message
\* what the hooks that ran did to it, and returns nil exactly when no hook
\* that ran returned an error (the empty chain included).
C3_FailFastInOrder ==
    \A c \in Calls : InChainDo(c) =>
        LET ev   == HookEvents(c)
            p    == trace[c][1].who
            want == FailFast(call[c].fn, chains[p], trace[c][1].res, trace[c][1].hdr)
        IN  /\ Len(ev) <= Len(want.ran)
            /\ \A n \in DOMAIN ev : ev[n].who = chains[p][n].id
            /\ \A n \in DOMAIN ev : n < Len(ev) => ev[n].err = "nil"
            /\ call[c].pc = "done" =>
                 /\ Len(ev) = Len(want.ran)
                 /\ MessageHeader(c) = want.hdr
                 /\ call[c].retErr = want.err
                 /\ call[c].retErr = "nil" <=> \A n \in DOMAIN ev : ev[n].err = "nil"
                 /\ call[c].retErr # "nil" =>
                      /\ ev[Len(ev)].err = call[c].retErr
                      /\ chains[p][Len(ev)].id = call[c].retErr

\* a chain of three hooks was run on a message: the first changed the
\* message, the second failed, the third never ran
C3_Witness ==
    \E c \in Calls :
        /\ InChainDo(c)
        /\ call[c].pc = "done"
        /\ Len(chains[trace[c][1].who]) = 3
        /\ Len(HookEvents(c)) = 2
        /\ call[c].retErr # "nil"
        /\ MessageHeader(c) # trace[c][1].hdr

\* the step is a.Append(b) for the chains a and b
AppendOfChain(a, b) ==
    /\ last' = [op |-> "Append", p |-> a, hook |-> HooksPtr(b), panicked |-> "", in |-> <<>>, out |-> <<>>]
    /\ last' # last \/ chains' # chains

\* while a chain is run, the hooks run so far are the first hooks the chain
\* holds, in the chain's order
RunsInChainOrder ==
    \A c \in Calls : InChainDo(c) =>
        LET ev == HookEvents(c)
            hs == chains[trace[c][1].who]
        IN  /\ Len(ev) <= Len(hs)
            /\ \A n \in DOMAIN ev : ev[n].who = hs[n].id
            /\ call[c].pc = "done" /\ call[c].retErr = "nil" => Len(ev) = Len(hs)

\* C4 as stated, B.Len() and B's hooks being those B has once Append has
\* returned
C4_Original ==
    [][\A a, b \in DOMAIN chains : AppendOfChain(a, b) =>
         /\ HooksLen(a)' = HooksLen(a) + HooksLen(b)'
         /\ chains'[a] = chains[a] \o chains'[b]]_vars

\* C4: for chains A and B of one kind, A.Append(B) leaves A with its previous
\* length plus the length B had when Append was called, A's sequence being
\* A's previous hooks followed by the hooks B held then, in B's order (B is
\* left as it was unless it is A itself); a chain that is run runs the hooks
\* it holds in their order, so A runs its previous hooks and then B's.
C4_AppendSplices ==
    [][/\ \A a, b \in DOMAIN chains : AppendOfChain(a, b) =>
            /\ HooksLen(a)' = HooksLen(a) + HooksLen(b)
            /\ chains'[a] = chains[a] \o chains[b]
            /\ b # a => chains'[b] = chains[b]
       /\ RunsInChainOrder']_vars

\* a chain of two hooks has just been appended to another chain that held a
\* hook
C4_Witness ==
    /\ last.op = "Append"
    /\ last.hook.type = "chain"
    /\ last.hook.id # last.p
    /\ Len(chains[last.hook.id]) = 2
    /\ chains[last.hook.id][1] # chains[last.hook.id][2]
    /\ Len(chains[last.p]) = 3

\* whether header k of the request differs between two histories entries
Differs(a, b, k) ==
    \/ (k \in DOMAIN a.hdr) # (k \in DOMAIN b.hdr)
    \/ k \in DOMAIN a.hdr /\ k \in DOMAIN b.hdr /\ a.hdr[k] # b.hdr[k]

\* a request hook of call c changed header k
HookChanged(c, k) ==
    \E n \in Idx(c, "requestHook") : Differs(trace[c][n - 1], trace[c][n], k)

\* C5: for every name of DefaultHeader that no request hook changes, the
\* client receives the caller's own values if the caller's request carries
\* the name, and otherwise the default value (the first one) alone.
C5_DefaultNeverOverwrites ==
    \A c \in Calls : InDo(c) =>
        \A n \in Idx(c, "client") : \A k \in DOMAIN headers[agent.DefaultHeader] :
            ~HookChanged(c, k) =>
                LET recv == trace[c][n].hdr
                    orig == trace[c][1].hdr
                IN  /\ k \in DOMAIN recv
                    /\ recv[k] = IF k \in DOMAIN orig THEN orig[k]
                                 ELSE <<HeaderGet(headers[agent.DefaultHeader], k)>>

\* a client has received a request that kept the caller's value of one
\* default header and took the default value of another
C5_Witness ==
    \E c \in Calls : \E n \in Idx(c, "client") :
        \E k1, k2 \in DOMAIN headers[agent.DefaultHeader] :
            LET recv == trace[c][n].hdr
                orig == trace[c][1].hdr
            IN  /\ k1 \in DOMAIN orig /\ k2 \notin DOMAIN orig
                /\ ~HookChanged(c, k1) /\ ~HookChanged(c, k2)
                /\ recv[k1] = orig[k1] /\ recv[k1] # headers[agent.DefaultHeader][k1]
                /\ recv[k2] = headers[agent.DefaultHeader][k2]

\* the context carries a client attached with ContextWithClient
Carries(ctx) == \E m \in DOMAIN ctx : ctx[m].kind = "client"

\* C6: the client invoked is the one the caller's context carries, and then
\* not the Agent's own; it is the Agent's own when the context carries none.
C6_ContextClientWins ==
    \A c \in Calls : InDo(c) =>
        /\ Cardinality(Idx(c, "client")) <= 1
        /\ \A n \in Idx(c, "client") :
             IF Carries(trace[c][1].ctx)
             THEN /\ trace[c][n].who = "ctxClient"
                  /\ trace[c][n].who # agent.Client
             ELSE trace[c][n].who = agent.Client

\* the client of the context has been invoked, under a derived timeout context
C6_Witness ==
    \E c \in Calls : \E n \in Idx(c, "client") :
        /\ trace[c][n].who = "ctxClient"
        /\ IsDerived(trace[c][n].ctx)

\* which stage may directly follow which in one call of Do
StageSucc ==
    {<<"call", "defaultHeader">>,
     <<"defaultHeader", "requestHook">>, <<"defaultHeader", "getClient">>,
     <<"requestHook", "requestHook">>, <<"requestHook", "getClient">>,
     <<"requestHook", "return">>,
     <<"getClient", "timeout">>, <<"timeout", "client">>, <<"client", "cancel">>,
     <<"cancel", "responseHook">>, <<"cancel", "return">>,
     <<"responseHook", "responseHook">>, <<"responseHook", "return">>}

\* C7: in one call the stages follow each other in the order header
\* defaulting, request hooks, client resolution, timeout scoping, client call,
\* response hooks, each at most once; every request hook finds the default
\* headers applied and runs under the caller's own context; no response hook
\* runs before the client has returned.
C7_StageOrder ==
    \A c \in Calls : InDo(c) =>
        LET t == trace[c]
        IN  /\ t[1].ev = "call"
            /\ \A n \in 2..Len(t) : <<t[n - 1].ev, t[n].ev>> \in StageSucc
            /\ \A ev \in {"defaultHeader", "getClient", "timeout", "client", "cancel", "return"} :
                 Cardinality(Idx(c, ev)) <= 1
            /\ \A n \in Idx(c, "requestHook") :
                 /\ t[n].ctx = t[1].ctx
                 /\ \E m \in Idx(c, "defaultHeader") : m < n
                 /\ \A k \in DOMAIN headers[agent.DefaultHeader] : k \in DOMAIN t[n].hdr
            /\ \A n \in Idx(c, "responseHook") : \E m \in Idx(c, "client") : m < n

\* a Do has returned after every stage ran: default headers, a request hook,
\* a derived timeout, the client and a response hook
C7_Witness ==
    \E c \in Calls :
        /\ Done(c)
        /\ headers[agent.DefaultHeader] # EmptyHeader
        /\ Idx(c, "requestHook") # {} /\ Idx(c, "responseHook") # {}
        /\ IsDerived(call[c].ctx)

\* C8: once a response hook has returned an error, the client has been
\* invoked exactly once, no later response hook runs, and Do returns a nil
\* response with that hook's error.
C8_ResponseHookErrorDiscards ==
    \A c \in Calls : InDo(c) =>
        \A n \in Failed(c, "responseHook") :
            /\ Cardinality(Idx(c, "client")) = 1
            /\ \A m \in Idx(c, "responseHook") : m <= n
            /\ call[c].pc \in {"resHooksRet", "done"}
            /\ call[c].pc = "done" =>
                 /\ call[c].retRes = "nil"
                 /\ call[c].retErr = trace[c][n].err
                 /\ call[c].retErr = trace[c][n].who

\* a Do has returned after the client gave a response and the first of two
\* response hooks failed
C8_Witness ==
    \E c \in Calls :
        /\ Done(c)
        /\ Failed(c, "responseHook") # {}
        /\ \E n \in Idx(c, "client") : trace[c][n].res = "res"
        /\ call[c].i <= Len(call[c].hooks)

\* C9: once the client has returned an error, no response hook runs, no
\* client is invoked again, and Do returns a nil response with that very error.
C9_ClientErrorVerbatim ==
    \A c \in Calls : InDo(c) =>
        \A n \in Failed(c, "client") :
            /\ Idx(c, "responseHook") = {}
            /\ Cardinality(Idx(c, "client")) = 1
            /\ call[c].pc \in {"cancel", "clientRet", "done"}
            /\ call[c].pc = "done" =>
                 /\ call[c].retRes = "nil"
                 /\ call[c].retErr = trace[c][n].err

\* a Do of an Agent that has response hooks has returned the client's error
C9_Witness ==
    \E c \in Calls :
        /\ Done(c)
        /\ Failed(c, "client") # {}
        /\ chains[agent.ResponseHooks] # <<>>

\* call c derived a timeout context
Derived(c) == \E n \in Idx(c, "timeout") : IsDerived(trace[c][n].ctx)

\* the calls of the derived context's cancel function in call c
CancelCalls(c) == {n \in Idx(c, "cancel") : trace[c][n].who = "cancel"}

\* C10: a call derives a timeout context exactly when it reaches the
\* timeout stage with DefaultTimeout > 0; it then calls the derived context's
\* cancel function exactly once, after the client returned and before Do
\* returns, whether the client failed or not; a call that derives none calls
\* no cancel function of a context.
C10_CancelExactlyOnce ==
    \A c \in Calls : InDo(c) =>
        /\ Derived(c) <=> (Idx(c, "timeout") # {} /\ agent.DefaultTimeout > 0)
        /\ Cardinality(CancelCalls(c)) <= 1
        /\ \A n \in CancelCalls(c) :
             /\ Derived(c)
             /\ \E m \in Idx(c, "client") : m < n
             /\ \A r \in Idx(c, "return") : n < r
        /\ (Derived(c) /\ call[c].pc \in {"clientRet", "resHooks", "resHooksLoop", "resHooksRet", "panic", "done"})
             => Cardinality(CancelCalls(c)) = 1
        /\ ~Derived(c) => CancelCalls(c) = {}

\* a Do that derived a timeout context has returned the client's error
C10_Witness ==
    \E c \in Calls :
        /\ Done(c)
        /\ Derived(c)
        /\ Failed(c, "client") # {}
        /\ Cardinality(CancelCalls(c)) = 1


\* the earlier of two times
Earlier(a, b) == IF a < b THEN a ELSE b

\* the call c derives its timeout context in this step
DerivesTimeout(c) ==
    /\ call[c].pc = "timeout"
    /\ call'[c].pc = "doRequest"
    /\ agent.DefaultTimeout > 0

\* the deadline the claim gives the derived context, the Agent's timeout
\* counting from the time t
EffectiveDeadline(c, t) ==
    IF HasDeadline(trace[c][1].ctx)
    THEN Earlier(Deadline(trace[c][1].ctx), t + agent.DefaultTimeout)
    ELSE t + agent.DefaultTimeout

\* C11 as stated, the Agent's timeout counting from the start of the call of
\* Do
C11_Original ==
    [][\A c \in Calls : DerivesTimeout(c) =>
         /\ HasDeadline(call'[c].ctx)
         /\ Deadline(call'[c].ctx) = EffectiveDeadline(c, IdleCall.now)]_vars

\* C11: when DefaultTimeout > 0 the request handed to the transport is bound
\* to a context derived from the caller's context, whose deadline is the
\* earlier of the caller's own deadline (if any) and the time at which Do
\* derives the context (the request hooks have run by then) plus
\* DefaultTimeout; a caller's earlier deadline is never extended and an
\* earlier Agent timeout comes first.
C11_EarlierDeadlineWins ==
    [][\A c \in Calls : DerivesTimeout(c) =>
         /\ SubSeq(call'[c].ctx, 1, Len(call'[c].ctx) - 1) = trace[c][1].ctx
         /\ HasDeadline(call'[c].ctx)
         /\ Deadline(call'[c].ctx) = EffectiveDeadline(c, call[c].now)
         /\ HasDeadline(trace[c][1].ctx) => Deadline(call'[c].ctx) <= Deadline(trace[c][1].ctx)
         /\ Deadline(call'[c].ctx) <= call[c].now + agent.DefaultTimeout
         /\ trace'[c][Len(trace'[c])].ctx = call'[c].ctx
         /\ call'[c].now = call[c].now]_vars

\* the transport is about to be called, after a request hook that took time,
\* with a context whose deadline the Agent's timeout has brought before the
\* caller's own
C11_Witness ==
    \E c \in Calls :
        /\ InDo(c)
        /\ call[c].pc = "doRequest"
        /\ agent.DefaultTimeout > 0
        /\ call[c].now > 0
        /\ Idx(c, "requestHook") # {}
        /\ HasDeadline(trace[c][1].ctx)
        /\ Deadline(call[c].ctx) < Deadline(trace[c][1].ctx)

\* C12: when DefaultTimeout is zero or negative Do derives no context: the
\* transport is called with the request the caller passed, bound to the
\* caller's context, whose deadline (or lack of one) is the caller's.
C12_NoTimeoutNoContext ==
    \A c \in Calls : InDo(c) /\ agent.DefaultTimeout <= 0 =>
        /\ call[c].req = "req"
        /\ call[c].ctx = trace[c][1].ctx
        /\ HasDeadline(call[c].ctx) = HasDeadline(trace[c][1].ctx)
        /\ Deadline(call[c].ctx) = Deadline(trace[c][1].ctx)
        /\ call[c].cancel = "nop"
        /\ \A n \in Idx(c, "client") : trace[c][n].ctx = trace[c][1].ctx

\* a transport has been called for a request whose context carries the
\* caller's deadline, the Agent having a negative timeout
C12_Witness ==
    \E c \in Calls :
        /\ Done(c)
        /\ agent.DefaultTimeout < 0
        /\ Idx(c, "client") # {}
        /\ HasDeadline(trace[c][1].ctx)


\* a caller makes an operation on a chain in this step
ChainOp == last' # last \/ chains' # chains

\* the step is q = p.Clone()
CloneStep(p, q) ==
    /\ ChainOp
    /\ last' = [op |-> "Clone", p |-> q, hook |-> HooksPtr(p), panicked |-> "", in |-> <<>>, out |-> <<>>]

\* the step is a.Append(hook), whatever comes of it
AppendStep(a, hook) ==
    /\ ChainOp
    /\ last'.op = "Append"
    /\ last'.p = a
    /\ last'.hook = hook

\* s is the beginning of t
IsPrefix(s, t) == Len(s) <= Len(t) /\ s = SubSeq(t, 1, Len(s))

\* C13: D = C.Clone() holds the hooks of C in the same order and leaves every
\* chain there was as it is; from then on an Append on a chain adds to the
\* end of that chain only, every other chain keeping its sequence and Len(),
\* so each of C and D stays its sequence at clone time followed by what was
\* appended to itself, and a chain that is run runs its own sequence.
C13_CloneIsIndependent ==
    [][/\ \A p \in DOMAIN chains, q \in RequestPtrs \cup ResponsePtrs : CloneStep(p, q) =>
            /\ q \notin DOMAIN chains
            /\ DOMAIN chains' = DOMAIN chains \cup {q}
            /\ chains'[q] = chains[p]
            /\ HooksLen(q)' = HooksLen(p)
            /\ \A r \in DOMAIN chains : chains'[r] = chains[r]
       /\ \A a \in DOMAIN chains : (\E hook \in RequestHookArgs \cup ResponseHookArgs : AppendStep(a, hook)) =>
            /\ DOMAIN chains' = DOMAIN chains
            /\ IsPrefix(chains[a], chains'[a])
            /\ \A r \in DOMAIN chains \ {a} : chains'[r] = chains[r] /\ HooksLen(r)' = HooksLen(r)
       /\ RunsInChainOrder']_vars

\* a chain of two different hooks has just been cloned, after Appends on it
C13_Witness ==
    /\ last.op = "Clone"
    /\ Len(chains[last.p]) = 2
    /\ chains[last.p][1] # chains[last.p][2]
    /\ chains[last.p] = chains[last.hook.id]

\* what running the hooks hs gives on the messages chains are run on: the
\* headers left and the error
Outcomes(fn, hs) ==
    [m \in {"nil", "res"} \X ChainHeaders |->
        LET r == FailFast(fn, hs, m[1], m[2]) IN <<r.hdr, r.err>>]

\* C15: Append of the no-op hook of the chain's kind leaves the chain's
\* sequence and Len() as they are, whatever the chain holds, so running the
\* chain on a message gives what it gave before.
C15_AppendNopChangesNothing ==
    [][/\ \A a \in RequestChains : AppendStep(a, NopRequestHook) =>
            /\ chains' = chains
            /\ HooksLen(a)' = HooksLen(a)
            /\ Outcomes("RequestHooks.Do", chains'[a]) = Outcomes("RequestHooks.Do", chains[a])
            /\ last'.panicked = ""
       /\ \A a \in ResponseChains : AppendStep(a, NopResponseHook) =>
            /\ chains' = chains
            /\ HooksLen(a)' = HooksLen(a)
            /\ Outcomes("ResponseHooks.Do", chains'[a]) = Outcomes("ResponseHooks.Do", chains[a])
            /\ last'.panicked = ""]_vars

\* the no-op hook has just been appended to a chain that holds hooks
C15_Witness ==
    /\ last.op = "Append"
    /\ last.hook \in {NopRequestHook, NopResponseHook}
    /\ Len(chains[last.p]) >= 2

\* C16: Append(nil) on a request or response chain panics, the chain being
\* empty or not, and leaves the chain's sequence and Len() as they were.
C16_AppendNilPanics ==
    [][\A a \in DOMAIN chains : AppendStep(a, NilHook) =>
         /\ last'.panicked = "nil hook"
         /\ chains' = chains
         /\ HooksLen(a)' = HooksLen(a)]_vars

\* Append(nil) has just panicked on a chain that holds hooks
C16_Witness ==
    /\ last.op = "Append"
    /\ last.hook = NilHook
    /\ last.panicked = "nil hook"
    /\ chains[last.p] # <<>>


\* what the Agent struct x shows of its configuration: the header map and the
\* two chains its pointers lead to
View(x) == <<headers[x.DefaultHeader], chains[x.RequestHooks], chains[x.ResponseHooks]>>

\* C14: b = a.WithClient(c) has the client c and a's DefaultTimeout, and a
\* header map and chains of its own that hold what a's hold; from then on a
\* DefaultHeader mutation or an Append made through a leaves b's DefaultHeader
\* and b's chains as they are, and one made through b leaves a's as they are.
C14_WithClientIsIndependent ==
    [][/\ (derived = NilAgent /\ derived' # NilAgent) =>
            /\ derived'.Client = last'.in[1]
            /\ derived'.DefaultTimeout = agent.DefaultTimeout
            /\ derived'.DefaultHeader # agent.DefaultHeader
            /\ derived'.RequestHooks # agent.RequestHooks
            /\ derived'.ResponseHooks # agent.ResponseHooks
            /\ View(derived)' = View(agent)
            /\ View(agent)' = View(agent)
            /\ agent' = agent
       /\ (derived # NilAgent /\ ThroughAgent) =>
            /\ View(derived)' = View(derived)
            /\ derived' = derived
       /\ (derived # NilAgent /\ ThroughDerived) =>
            /\ View(agent)' = View(agent)
            /\ agent' = agent]_vars

\* both Agents were configured after WithClient: each has a default header
\* and a hook the other has not
C14_Witness ==
    /\ derived # NilAgent
    /\ derived.Client = "otherClient"
    /\ \E k \in DOMAIN headers[agent.DefaultHeader] : k \notin DOMAIN headers[derived.DefaultHeader]
    /\ \E k \in DOMAIN headers[derived.DefaultHeader] : k \notin DOMAIN headers[agent.DefaultHeader]
    /\ Len(chains[agent.RequestHooks]) > Len(chains[derived.RequestHooks])
    /\ Len(chains[derived.ResponseHooks]) > Len(chains[agent.ResponseHooks])


\* the last operation was ContextWithClient on contexts[p] with the client c
Attached(p, c) == last.op = "ContextWithClient" /\ last.in = <<p, c>>

\* the layers of ctx that ContextWithClient made
ClientLayers(ctx) == {n \in DOMAIN ctx : ctx[n].kind = "client"}

\* C17: ContextWithClient(ctx, nil) panics and returns no context; with a
\* client that is not nil it returns a context that was not held before, is
\* not ctx, and carries the client; ctx, like every context held before, is
\* what it was, so it carries no client or the one it carried.
C17_ContextWithClient ==
    [][\A p \in DOMAIN contexts, c \in AttachedClients :
         ContextWithClientCall(p, c) =>
           /\ \A q \in DOMAIN contexts : contexts'[q] = contexts[q]
           /\ IF c = "nil"
              THEN /\ last'.panicked = "nil client"
                   /\ last'.out = <<>>
                   /\ contexts' = contexts
              ELSE /\ last'.panicked = ""
                   /\ Len(last'.out) = 1
                   /\ last'.out[1] \in DOMAIN contexts' \ DOMAIN contexts
                   /\ last'.out[1] # p
                   /\ contexts'[last'.out[1]] # contexts[p]
                   /\ contextClient(contexts'[last'.out[1]]) = c
                   /\ contextClient(contexts'[p]) = contextClient(contexts[p])]_vars

\* a client was attached to a context that carried another one, and the
\* context it was attached to still carries that other one
C17_Witness ==
    /\ Attached(2, "clientB")
    /\ last.panicked = ""
    /\ contextClient(contexts[2]) = "clientA"
    /\ contextClient(contexts[last.out[1]]) = "clientB"

\* C18: contextClient does not panic; it returns nil for a context with no
\* ContextWithClient layer, and the client of the innermost such layer
\* otherwise, whatever layers lie over it.
C18_ContextClientInnermost ==
    last.op = "contextClient" =>
        LET ctx == contexts[last.in[1]]
        IN  /\ last.panicked = ""
            /\ ClientLayers(ctx) = {} => last.out = <<"nil">>
            /\ \A n \in ClientLayers(ctx) :
                 (\A m \in ClientLayers(ctx) : m <= n) => last.out = <<ctx[n].client>>

\* the client of a context with two attachments and a deadline layer over
\* them was looked up
C18_Witness ==
    /\ last.op = "contextClient"
    /\ LET ctx == contexts[last.in[1]]
       IN  /\ Len(ctx) = 3
           /\ ClientLayers(ctx) = {1, 2}
           /\ ctx[1].client # ctx[2].client
           /\ last.out = <<ctx[2].client>>


HeaderHookDone == last.op = "RequestHeaderHook.Do"

\* C20: after Do of a RequestHeaderHook with Add false and SkipIfExists
\* false, the request has, for every name of the hook's Header, exactly one
\* value, the (first) value the hook's Header gives the name; the values the
\* request had for the name are gone.
C20_SetModeReplaces ==
    (HeaderHookDone /\ ~last.in[1].Add /\ ~last.in[1].SkipIfExists) =>
        \A k \in DOMAIN last.in[1].Header :
            /\ k \in DOMAIN headers[RequestHeader]
            /\ headers[RequestHeader][k] = <<last.in[1].Header[k][1]>>

\* a hook in set mode with two names was applied to a request that had two
\* values of its own for one of them
C20_Witness ==
    /\ HeaderHookDone
    /\ ~last.in[1].Add /\ ~last.in[1].SkipIfExists
    /\ DOMAIN last.in[1].Header = {"Foo", "Bar"}
    /\ "Foo" \in DOMAIN last.in[2]
    /\ last.in[2]["Foo"] = <<"r", "s">>
    /\ headers[RequestHeader]["Foo"] = <<"1">>


\* the values the header hdr has for the name k, none when it has not the name
ValuesOf(hdr, k) == IF k \in DOMAIN hdr THEN hdr[k] ELSE <<>>

\* C21: after Do of a RequestHeaderHook with Add true and SkipIfExists false,
\* the request has, for every name of the hook's Header, the values it had
\* for the name, in their order, followed by the (first) value the hook's
\* Header gives the name.
C21_AddModeAppends ==
    (HeaderHookDone /\ last.in[1].Add /\ ~last.in[1].SkipIfExists) =>
        \A k \in DOMAIN last.in[1].Header :
            ValuesOf(headers[RequestHeader], k)
                = Append(ValuesOf(last.in[2], k), last.in[1].Header[k][1])

\* a hook in add mode with two names was applied to a request that had two
\* values for one of the names and none for the other
C21_Witness ==
    /\ HeaderHookDone
    /\ last.in[1].Add /\ ~last.in[1].SkipIfExists
    /\ DOMAIN last.in[1].Header = {"Foo", "Bar"}
    /\ ValuesOf(last.in[2], "Foo") = <<"r", "s">>
    /\ ValuesOf(last.in[2], "Bar") = <<>>
    /\ ValuesOf(headers[RequestHeader], "Foo") = <<"r", "s", "1">>
    /\ ValuesOf(headers[RequestHeader], "Bar") = <<"2">>


\* header names without regard to case: the names of hdr that are the name k
\* in some spelling
Fold(k) == IF k = "Foo" THEN "foo" ELSE k
Carried(hdr, k) == {j \in DOMAIN hdr : Fold(j) = Fold(k)}

\* C22: after Do of a RequestHeaderHook with SkipIfExists true, a name of the
\* hook's Header that the request carried in some spelling is carried as
\* before, with the values it had; a name the request did not carry has
\* exactly the (first) value the hook's Header gives it. Add makes no
\* difference.
C22_SkipIfExistsKeeps ==
    (HeaderHookDone /\ last.in[1].SkipIfExists) =>
        \A k \in DOMAIN last.in[1].Header :
            IF Carried(last.in[2], k) # {}
            THEN /\ Carried(headers[RequestHeader], k) = Carried(last.in[2], k)
                 /\ \A j \in Carried(last.in[2], k) :
                      headers[RequestHeader][j] = last.in[2][j]
            ELSE /\ Carried(headers[RequestHeader], k) # {}
                 /\ \A j \in Carried(headers[RequestHeader], k) :
                      headers[RequestHeader][j] = <<last.in[1].Header[k][1]>>

\* a skipping hook with two names was applied to a request that carried one
\* of them with two values: those stayed, and the other name was set
C22_Witness ==
    /\ HeaderHookDone
    /\ last.in[1].SkipIfExists
    /\ DOMAIN last.in[1].Header = {"Foo", "Bar"}
    /\ ValuesOf(last.in[2], "Foo") = <<"r", "s">>
    /\ ValuesOf(last.in[2], "Bar") = <<>>
    /\ ValuesOf(headers[RequestHeader], "Foo") = <<"r", "s">>
    /\ ValuesOf(headers[RequestHeader], "Bar") = <<"2">>


\* C23: when a dumper hook's Do returns nil, its Writer has received the
\* dump followed by one newline, each byte once, however many bytes each
\* Write took.
C23_DumpWrittenOnce ==
    (dumper.pc = "done" /\ dumper.ret = "nil") =>
        dumper.received = Append(dumper.body, Newline)


\* what Do gives a caller who is alone with the Agent, for a request of
\* headers hdr and a client that gives out: the response and the error
\* returned, and the headers the request is left with
Alone(hdr, out) ==
    LET dh == RequestHeaderHookDo(DefaultHeaderHook, hdr,
                  CHOOSE o \in Orders(DOMAIN headers[agent.DefaultHeader]) : TRUE)
        rq == FailFast("RequestHooks.Do", chains[agent.RequestHooks], "nil", dh)
        rs == FailFast("ResponseHooks.Do", chains[agent.ResponseHooks], out.res, EmptyHeader)
    IN  IF rq.err # "nil" THEN [res |-> "nil", err |-> rq.err, hdr |-> rq.hdr]
        ELSE IF out.err # "nil" THEN [res |-> "nil", err |-> out.err, hdr |-> rq.hdr]
        ELSE IF rs.err # "nil" THEN [res |-> "nil", err |-> rs.err, hdr |-> rq.hdr]
        ELSE [res |-> out.res, err |-> "nil", hdr |-> rq.hdr]

\* what the client of the call c gave, nothing when it was not reached
ClientGave(c) ==
    IF Idx(c, "client") = {} THEN [res |-> "nil", err |-> "nil"]
    ELSE LET n == CHOOSE m \in Idx(c, "client") : TRUE
         IN  [res |-> trace[c][n].res, err |-> trace[c][n].err]

\* the call c has returned what it would have returned alone
AsAlone(c) ==
    Done(c) =>
        [res |-> call[c].retRes, err |-> call[c].retErr, hdr |-> call[c].hdr]
            = Alone(trace[c][1].hdr, ClientGave(c))

\* C24: no step of Agent.Do writes a field of the Agent, its DefaultHeader
\* or the sequence of one of its chains; and with two calls of Do on the
\* Agent in flight, their steps in any order, each call returns the response
\* and the error, and leaves its request the headers, that it would alone.
C24_CallsDoNotInterfere ==
    [][/\ call' # call =>
            /\ agent' = agent
            /\ View(agent)' = View(agent)
       /\ \A c \in Calls : AsAlone(c)']_vars

\* both calls were in flight together, and both have returned, one with a
\* response and one with the error of its client
C24_Witness ==
    /\ Done("c1") /\ Done("c2")
    /\ Len(trace["c1"]) > 3 /\ Len(trace["c2"]) > 3
    /\ call["c1"].retRes = "res"
    /\ call["c2"].retErr = "errT"
    /\ call["c1"].hdr # call["c2"].hdr
    /\ Len(chains[agent.RequestHooks]) > 0
    /\ DOMAIN headers[agent.DefaultHeader] # {}


C26_ChainsAreFlat ==
    /\ \A p \in DOMAIN chains : \A n \in DOMAIN chains[p] :
         chains[p][n].type \notin {"nil", "nop", "chain"}
    /\ \A c \in Calls :
         (InChainDo(c) /\ call[c].pc = "done" /\ call[c].retErr = "nil") =>
             Len(HookEvents(c)) = HooksLen(trace[c][1].who)

\* a chain holding hooks was appended to another chain of its kind that held
\* hooks
C26_Witness ==
    /\ last.op = "Append"
    /\ last.hook.type = "chain"
    /\ last.hook.id # last.p
    /\ chains[last.hook.id] # <<>>
    /\ HooksLen(last.p) > Len(chains[last.hook.id])

\* C27: flattening takes a snapshot.  A.Append(B) for two chains leaves B's
\* sequence as it was; an Append on a chain B, whatever is appended, leaves
\* the sequence and Len() of every other chain A as they were, A having
\* flattened B before or not, and a chain that is run runs the hooks of its own
\* sequence; A.Append(A) leaves A with its hooks followed by a copy of them,
\* twice its Len().
C27_FlatteningSnapshots ==
    [][/\ \A a, b \in DOMAIN chains : AppendOfChain(a, b) =>
            IF b = a
            THEN /\ chains'[a] = chains[a] \o chains[a]
                 /\ HooksLen(a)' = 2 * HooksLen(a)
            ELSE chains'[b] = chains[b]
       /\ \A b \in DOMAIN chains, hook \in RequestHookArgs \cup ResponseHookArgs :
            AppendStep(b, hook) =>
                \A a \in DOMAIN chains \ {b} :
                    /\ chains'[a] = chains[a]
                    /\ HooksLen(a)' = HooksLen(a)
       /\ RunsInChainOrder']_vars

\* a closure has just been appended to a chain B, and a chain A with a hook of
\* its own ends with the hooks B held before and not with those B holds now
C27_Witness ==
    /\ last.op = "Append"
    /\ last.hook.type = "func"
    /\ \E a \in DOMAIN chains \ {last.p} :
         LET hb  == chains[last.p]
             was == SubSeq(hb, 1, Len(hb) - 1)
             ha  == chains[a]
         IN  /\ Len(hb) >= 2
             /\ Len(ha) > Len(was)
             /\ SubSeq(ha, Len(ha) - Len(was) + 1, Len(ha)) = was
             /\ ha[1] # was[1]
             /\ SubSeq(ha, Len(ha) - Len(hb) + 1, Len(ha)) # hb

\* C28: when DefaultTimeout > 0 and the client returned no error, the context
\* the client's request was bound to is the derived timeout context, and its
\* cancel function has been called after the client returned and before each
\* response hook runs and before Do returns; the response hooks and the
\* return happen under that same, cancelled, context.
C28_CancelledBeforeResponseHooks ==
    \A c \in Calls : (InDo(c) /\ agent.DefaultTimeout > 0) =>
        \A m \in Idx(c, "client") : trace[c][m].err = "nil" =>
            /\ IsDerived(trace[c][m].ctx)
            /\ call[c].pc \in {"resHooks", "resHooksLoop", "resHooksRet"} =>
                 \E k \in CancelCalls(c) : m < k
            /\ \A n \in Idx(c, "responseHook") \cup Idx(c, "return") :
                 /\ trace[c][n].ctx = trace[c][m].ctx
                 /\ \E k \in CancelCalls(c) :
                      /\ m < k
                      /\ k < n
                      /\ trace[c][k].ctx = trace[c][m].ctx

\* a Do with a timeout has run a response hook on the client's response and
\* returned that response
C28_Witness ==
    \E c \in Calls :
        /\ Done(c)
        /\ agent.DefaultTimeout > 0
        /\ call[c].retRes = "res"
        /\ call[c].retErr = "nil"
        /\ Idx(c, "responseHook") # {}
        /\ CancelCalls(c) # {}

\* C29: RequestHeaderHook.Do applies the first value its Header has for a
\* name and no other.  For every name of the hook's Header, with the values
\* v1, v2, ...: a name the request carries is left as it is when SkipIfExists
\* is set; otherwise add mode leaves the values the request had followed by v1
\* alone, and set mode leaves exactly v1.  The hook with Add false and
\* SkipIfExists true is the one Agent.Do builds from the DefaultHeader.
C29_FirstValueOnly ==
    HeaderHookDone =>
        LET h   == last.in[1]
            was == last.in[2]
        IN  \A k \in DOMAIN h.Header :
                ValuesOf(headers[RequestHeader], k)
                    = IF h.SkipIfExists /\ k \in DOMAIN was THEN was[k]
                      ELSE IF h.Add THEN ValuesOf(was, k) \o <<h.Header[k][1]>>
                      ELSE <<h.Header[k][1]>>

\* a hook whose Header has two different values for a name was applied in add
\* mode to a request that carries the name
C29_Witness ==
    /\ HeaderHookDone
    /\ last.in[1].Add
    /\ ~last.in[1].SkipIfExists
    /\ \E k \in DOMAIN last.in[1].Header \cap DOMAIN last.in[2] :
         /\ Len(last.in[1].Header[k]) = 2
         /\ last.in[1].Header[k][1] # last.in[1].Header[k][2]
         /\ Len(headers[RequestHeader][k]) = Len(last.in[2][k]) + 1

\* C30: RequestHeaderHook.Do, in each of its modes, returns nil, leaves the
\* hook's own Header as it was, and leaves every header of the request whose
\* name is not in the hook's Header as it was: none is added, removed or
\* given other values.  (The request's header and the hook's Header are two
\* maps.)
C30_HeaderHookFrame ==
    [][HeaderHookDone' =>
         LET h == last'.in[1]
         IN  /\ last'.out = <<"nil">>
             /\ last'.in[2] = headers[RequestHeader]
             /\ h.Header = headers[HookHeader]
             /\ headers'[HookHeader] = headers[HookHeader]
             /\ DOMAIN headers' = DOMAIN headers
             /\ \A p \in DOMAIN headers \ {RequestHeader} : headers'[p] = headers[p]
             /\ DOMAIN headers'[RequestHeader] \ DOMAIN h.Header
                    = DOMAIN headers[RequestHeader] \ DOMAIN h.Header
             /\ \A k \in DOMAIN headers[RequestHeader] \ DOMAIN h.Header :
                    headers'[RequestHeader][k] = headers[RequestHeader][k]]_vars

\* a hook has changed a request that carries a name the hook's Header has not
C30_Witness ==
    /\ HeaderHookDone
    /\ DOMAIN last.in[2] \ DOMAIN last.in[1].Header # {}
    /\ headers[RequestHeader] # last.in[2]
    /\ headers[HookHeader] = last.in[1].Header

\* the step applies once more the hook that was applied last, to the request
\* as that application left it
AppliedAgain ==
    /\ HeaderHookDone
    /\ HeaderHookDone'
    /\ last'.in[1] = last.in[1]
    /\ last'.in[2] = headers[RequestHeader]

\* C31: applying a RequestHeaderHook a second time to the request leaves the
\* request's headers as the first application left them when SkipIfExists is
\* set, and when the hook is in set mode (this is the hook Agent.Do builds from
\* its DefaultHeader, so a request passed twice gains no default value the
\* second time); a hook with Add set and SkipIfExists not set leaves, at
\* every application, each name of its Header with one value more: the values
\* there were followed by the hook's value.
C31_DefaultingIsIdempotent ==
    [][AppliedAgain =>
         LET h == last'.in[1]
         IN  IF h.SkipIfExists \/ ~h.Add
             THEN headers'[RequestHeader] = headers[RequestHeader]
             ELSE \A k \in DOMAIN h.Header :
                    /\ k \in DOMAIN headers[RequestHeader]
                    /\ headers'[RequestHeader][k]
                         = headers[RequestHeader][k] \o <<h.Header[k][1]>>
                    /\ Len(headers'[RequestHeader][k])
                         = Len(headers[RequestHeader][k]) + 1]_vars

\* a hook with SkipIfExists set and a name in its Header was applied to a
\* request that carries, for every name of the hook, the hook's value alone,
\* as the hook's first application to a request without the names leaves it
C31_Witness ==
    /\ HeaderHookDone
    /\ last.in[1].SkipIfExists
    /\ DOMAIN last.in[1].Header # {}
    /\ \A k \in DOMAIN last.in[1].Header :
         /\ k \in DOMAIN last.in[2]
         /\ last.in[2][k] = <<last.in[1].Header[k][1]>>
    /\ headers[RequestHeader] = last.in[2]

\* the hooks the closures run so far in call c have appended, in order
AppendedBy(c) ==
    LET ev == SelectSeq(HookEvents(c), LAMBDA e : e.who \in Appenders)
    IN  [n \in DOMAIN ev |-> AppendedHook(call[c].fn, ev[n].who)]

\* the second call runs the chain the first call ran
SameChain == InChainDo("c1") /\ InChainDo("c2") /\ trace["c2"][1].who = trace["c1"][1].who

\* the hooks the chain of call c held when c entered Do: those it holds less
\* the ones appended since, by c and, for the first call, by the second one
HeldAtStart(c) ==
    LET hs    == chains[trace[c][1].who]
        since == Len(AppendedBy(c))
                   + (IF c = "c1" /\ SameChain THEN Len(AppendedBy("c2")) ELSE 0)
    IN  SubSeq(hs, 1, Len(hs) - since)

\* C32: an execution of a chain runs the hooks the chain held when the
\* execution started, in order, all of them when none fails, and none that a
\* hook of the chain appended to it during the execution; the appended hooks
\* are at the end of the chain in the order they were appended, so the next
\* execution starts with them held and runs them in that place.
C32_RunsHooksHeldAtStart ==
    /\ \A c \in Calls : InChainDo(c) =>
         LET ev == HookEvents(c)
             hs == HeldAtStart(c)
         IN  /\ Len(ev) <= Len(hs)
             /\ \A n \in DOMAIN ev : ev[n].who = hs[n].id
             /\ (call[c].pc = "done" /\ call[c].retErr = "nil") => Len(ev) = Len(hs)
    /\ SameChain =>
         /\ HeldAtStart("c2") = HeldAtStart("c1") \o AppendedBy("c1")
         /\ chains[trace["c1"][1].who] = HeldAtStart("c2") \o AppendedBy("c2")

\* a chain was run to its end twice, a hook of it appending a hook in the
\* first execution; the second execution has run the hooks the first one
\* ran, then the appended one
C32_Witness ==
    /\ SameChain
    /\ \A c \in Calls : call[c].pc = "done" /\ call[c].retErr = "nil"
    /\ AppendedBy("c1") # <<>>
    /\ Len(HookEvents("c2")) = Len(HookEvents("c1")) + Len(AppendedBy("c1"))
    /\ HookEvents("c2")[Len(HookEvents("c2"))].who = AppendedBy("c1")[Len(AppendedBy("c1"))].id

====
